---------------------------- MODULE Spec2Model ----------------------------
(***************************************************************************)
(* Reviewer-finder pipeline: find_reviewers (services/search_service.py)   *)
(* with its retrieval backends, the scoring strategies of                  *)
(* services/llm_service.py, the contact cascade of                         *)
(* services/contact_service.py and the COI annotation of                   *)
(* services/coi_service.py.                                                *)
(*                                                                         *)
(* Conventions.                                                            *)
(*  - A Python str is a sequence of character codes (ord values).          *)
(*  - A Python float is an exact rational <<n, d>>, d > 0, in lowest       *)
(*    terms; float round-off is not modelled.                              *)
(*  - Embedding vectors are 3-dimensional with integer coordinates in      *)
(*    units of 1/VecUnit, so a vector of Euclidean length VecUnit is       *)
(*    L2-normalised.                                                       *)
(*  - A dict key that is absent is modelled by the value None (for a       *)
(*    contact field or a score), 0 (rank, an identifier) or the empty     *)
(*    sequence (lists, strings).                                          *)
(***************************************************************************)
EXTENDS Integers, Sequences, FiniteSets, TLC

\* An absent dict key: every field is a sequence, None the empty one
None == <<>>

\* A contact dict; email_is_inferred is <<TRUE>> or <<FALSE>> when set, orcid
\* is <<id>>
EmptyContact ==
    [email |-> None, email_is_inferred |-> None, orcid |-> None, orcid_url |-> None,
     institution |-> None, institution_page |-> None, homepage |-> None,
     google_scholar |-> None, openalex_url |-> None]

ContactKeys == DOMAIN EmptyContact

(***************************************************************************)
(* Rationals                                                               *)
(***************************************************************************)
Abs(x) == IF x < 0 THEN -x ELSE x

RECURSIVE GCD(_, _)
GCD(a, b) == IF b = 0 THEN a ELSE GCD(b, a % b)

Rat(n, d) ==
    LET g == GCD(Abs(n), d)
    IN  IF n = 0 THEN <<0, 1>> ELSE <<n \div g, d \div g>>

RInt(n) == <<n, 1>>
RAdd(a, b) == Rat(a[1] * b[2] + b[1] * a[2], a[2] * b[2])
RSub(a, b) == Rat(a[1] * b[2] - b[1] * a[2], a[2] * b[2])
RMul(a, b) == Rat(a[1] * b[1], a[2] * b[2])
RDiv(a, b) == IF b[1] > 0 THEN Rat(a[1] * b[2], a[2] * b[1])
                          ELSE Rat(-(a[1] * b[2]), a[2] * (-b[1]))
RLeq(a, b) == a[1] * b[2] <= b[1] * a[2]
RLt(a, b) == a[1] * b[2] < b[1] * a[2]
RMax(a, b) == IF RLeq(a, b) THEN b ELSE a
RMin(a, b) == IF RLeq(a, b) THEN a ELSE b

\* round(x, 1): nearest multiple of 1/10, an exact tie going to the even one.
Round1(x) ==
    LET n10 == 10 * x[1]
        fl  == n10 \div x[2]
        rem == n10 - fl * x[2]
        t   == IF 2 * rem < x[2] THEN fl
               ELSE IF 2 * rem > x[2] THEN fl + 1
               ELSE IF fl % 2 = 0 THEN fl ELSE fl + 1
    IN  Rat(t, 10)

(***************************************************************************)
(* Strings                                                                 *)
(***************************************************************************)
IsLowerCh(c) == c >= 97 /\ c <= 122
IsUpperCh(c) == c >= 65 /\ c <= 90
IsDigitCh(c) == c >= 48 /\ c <= 57
\* str.isspace() and \s of the re module, over the ASCII characters
IsSpaceCh(c) == c \in {9, 10, 11, 12, 13, 32}
\* \w of the re module, over the characters used here
IsWordCh(c) == IsLowerCh(c) \/ IsUpperCh(c) \/ IsDigitCh(c) \/ c \in {95, 224, 233}

\* str.lower()
Lower(s) == [i \in 1..Len(s) |-> IF IsUpperCh(s[i]) THEN s[i] + 32 ELSE s[i]]

RECURSIVE LStrip(_)
LStrip(s) == IF s # <<>> /\ IsSpaceCh(Head(s)) THEN LStrip(Tail(s)) ELSE s

RECURSIVE RStrip(_)
RStrip(s) == IF s # <<>> /\ IsSpaceCh(s[Len(s)])
             THEN RStrip(SubSeq(s, 1, Len(s) - 1)) ELSE s

\* str.strip()
Strip(s) == RStrip(LStrip(s))

\* a in b, for strings
IsSubstr(a, b) ==
    \E i \in 0..(Len(b) - Len(a)) : SubSeq(b, i + 1, i + Len(a)) = a

\* s.startswith(p)
StartsWith(s, p) == Len(p) <= Len(s) /\ SubSeq(s, 1, Len(p)) = p

\* The maximal runs of characters satisfying the class cls, in order;
\* cls = 1: non-space (str.split()), cls = 2: \w characters.
InClass(cls, c) == IF cls = 1 THEN ~IsSpaceCh(c) ELSE IsWordCh(c)

RunStarts(cls, s) ==
    {i \in 1..Len(s) : InClass(cls, s[i]) /\ (i = 1 \/ ~InClass(cls, s[i - 1]))}

RunEnd(cls, s, i) ==
    CHOOSE j \in i..Len(s) :
        /\ \A k \in i..j : InClass(cls, s[k])
        /\ (j = Len(s) \/ ~InClass(cls, s[j + 1]))

Runs(cls, s) ==
    LET starts == RunStarts(cls, s)
        nth(k) == CHOOSE i \in starts : Cardinality({j \in starts : j <= i}) = k
    IN  [k \in 1..Cardinality(starts) |-> SubSeq(s, nth(k), RunEnd(cls, s, nth(k)))]

\* str.split()
Split(s) == Runs(1, s)

\* re.findall(r'\b[a-z]{3,}\b', s): the \w-runs made of lower-case letters
\* only, at least three of them.
FindWords(s) ==
    SelectSeq(Runs(2, s),
              LAMBDA w : Len(w) >= 3 /\ \A i \in 1..Len(w) : IsLowerCh(w[i]))

\* " ".join(list)
RECURSIVE JoinSp(_)
JoinSp(l) == IF l = <<>> THEN <<>>
             ELSE IF Len(l) = 1 THEN l[1]
             ELSE l[1] \o <<32>> \o JoinSp(Tail(l))

Range(f) == {f[i] : i \in DOMAIN f}

RECURSIVE SumSeq(_)
SumSeq(s) == IF s = <<>> THEN 0 ELSE Head(s) + SumSeq(Tail(s))

Min2(a, b) == IF a <= b THEN a ELSE b
Max2(a, b) == IF a >= b THEN a ELSE b

(***************************************************************************)
(* Program data                                                            *)
(***************************************************************************)
\* _STOPWORDS, each word as its character codes
STOPWORDS ==
    { <<116, 104, 101>>,  \* the
      <<97, 110, 100>>,  \* and
      <<102, 111, 114>>,  \* for
      <<97, 114, 101>>,  \* are
      <<98, 117, 116>>,  \* but
      <<110, 111, 116>>,  \* not
      <<121, 111, 117>>,  \* you
      <<97, 108, 108>>,  \* all
      <<99, 97, 110>>,  \* can
      <<104, 97, 100>>,  \* had
      <<104, 101, 114>>,  \* her
      <<119, 97, 115>>,  \* was
      <<111, 110, 101>>,  \* one
      <<111, 117, 114>>,  \* our
      <<111, 117, 116>>,  \* out
      <<104, 97, 115>>,  \* has
      <<104, 97, 118, 101>>,  \* have
      <<98, 101, 101, 110>>,  \* been
      <<102, 114, 111, 109>>,  \* from
      <<116, 104, 105, 115>>,  \* this
      <<116, 104, 97, 116>>,  \* that
      <<119, 105, 116, 104>>,  \* with
      <<116, 104, 101, 121>>,  \* they
      <<119, 105, 108, 108>>,  \* will
      <<101, 97, 99, 104>>,  \* each
      <<109, 97, 107, 101>>,  \* make
      <<108, 105, 107, 101>>,  \* like
      <<105, 110, 116, 111>>,  \* into
      <<111, 118, 101, 114>>,  \* over
      <<115, 117, 99, 104>>,  \* such
      <<116, 104, 97, 110>>,  \* than
      <<116, 104, 101, 109>>,  \* them
      <<116, 104, 101, 110>>,  \* then
      <<116, 104, 101, 115, 101>>,  \* these
      <<115, 111, 109, 101>>,  \* some
      <<119, 111, 117, 108, 100>>,  \* would
      <<111, 116, 104, 101, 114>>,  \* other
      <<97, 98, 111, 117, 116>>,  \* about
      <<119, 104, 105, 99, 104>>,  \* which
      <<116, 104, 101, 105, 114>>,  \* their
      <<116, 104, 101, 114, 101>>,  \* there
      <<99, 111, 117, 108, 100>>,  \* could
      <<109, 111, 114, 101>>,  \* more
      <<97, 108, 115, 111>>,  \* also
      <<109, 111, 115, 116>>,  \* most
      <<104, 101, 114, 101>>,  \* here
      <<98, 111, 116, 104>>,  \* both
      <<97, 102, 116, 101, 114>>,  \* after
      <<116, 104, 111, 115, 101>>,  \* those
      <<117, 115, 105, 110, 103>>,  \* using
      <<117, 115, 101, 100>>,  \* used
      <<98, 97, 115, 101, 100>>,  \* based
      <<115, 104, 111, 119>>,  \* show
      <<115, 104, 111, 119, 110>>,  \* shown
      <<119, 101, 108, 108>>,  \* well
      <<104, 111, 119, 101, 118, 101, 114>>,  \* however
      <<98, 101, 116, 119, 101, 101, 110>>,  \* between
      <<116, 104, 114, 111, 117, 103, 104>>,  \* through
      <<119, 104, 101, 114, 101>>,  \* where
      <<119, 104, 105, 108, 101>>,  \* while
      <<100, 117, 114, 105, 110, 103>>,  \* during
      <<98, 101, 102, 111, 114, 101>>,  \* before
      <<115, 104, 111, 117, 108, 100>>,  \* should
      <<114, 101, 115, 117, 108, 116, 115>>,  \* results
      <<112, 97, 112, 101, 114>>,  \* paper
      <<115, 116, 117, 100, 121>>,  \* study
      <<109, 101, 116, 104, 111, 100>>,  \* method
      <<109, 101, 116, 104, 111, 100, 115>>,  \* methods
      <<97, 112, 112, 114, 111, 97, 99, 104>>,  \* approach
      <<112, 114, 111, 112, 111, 115, 101>>,  \* propose
      <<112, 114, 111, 112, 111, 115, 101, 100>>,  \* proposed
      <<112, 114, 101, 115, 101, 110, 116>>,  \* present
      <<112, 114, 101, 115, 101, 110, 116, 101, 100>>,  \* presented
      <<100, 101, 109, 111, 110, 115, 116, 114, 97, 116, 101>>,  \* demonstrate
      <<101, 120, 105, 115, 116, 105, 110, 103>>,  \* existing
      <<114, 101, 99, 101, 110, 116>>,  \* recent
      <<102, 105, 114, 115, 116>>,  \* first
      <<115, 101, 99, 111, 110, 100>>,  \* second
      <<110, 101, 119>>,  \* new
      <<110, 111, 118, 101, 108>>,  \* novel
      <<100, 105, 102, 102, 101, 114, 101, 110, 116>>,  \* different
      <<105, 109, 112, 111, 114, 116, 97, 110, 116>>,  \* important
      <<115, 105, 103, 110, 105, 102, 105, 99, 97, 110, 116>>,  \* significant
      <<112, 114, 111, 118, 105, 100, 101>>,  \* provide
      <<112, 114, 111, 118, 105, 100, 101, 115>>,  \* provides
      <<105, 110, 99, 108, 117, 100, 105, 110, 103>>,  \* including
      <<97, 99, 114, 111, 115, 115>>,  \* across
      <<119, 105, 116, 104, 105, 110>>,  \* within
      <<119, 105, 116, 104, 111, 117, 116>>,  \* without
      <<112, 101, 114, 102, 111, 114, 109, 97, 110, 99, 101>>,  \* performance
      <<99, 111, 109, 112, 97, 114, 101, 100>>,  \* compared
      <<109, 111, 100, 101, 108>>,  \* model
      <<109, 111, 100, 101, 108, 115>>,  \* models
      <<100, 97, 116, 97>>,  \* data
      <<97, 110, 97, 108, 121, 115, 105, 115>> }  \* analysis


(***************************************************************************)
(* The reviewer corpus (data/embeddings.npy, data/embeddings_metadata.json *)
(* and the remote collection hold the same authors): a prefix of the       *)
(* authors below.  Row i of the embedding matrix is CorpusVectors[i].      *)
(***************************************************************************)
VecUnit == 7

CorpusVectors ==
    << 
       <<3, 6, 2>>, <<2, 3, 6>>, <<6, 2, 3>>, <<-2, -6, 3>>,
       <<2, 6, 3>>, <<-6, 2, -3>>, <<-6, 2, 3>>, <<2, 3, -6>>,
       <<-2, 3, 6>>, <<-6, -2, -3>>, <<2, -6, -3>>, <<0, 7, 0>>,
       <<-2, -3, -6>>, <<-3, -6, 2>>, <<-2, 3, -6>>, <<-6, -3, 2>>,
       <<-2, -3, 6>>, <<-3, -2, 6>>, <<6, -3, 2>>, <<-7, 0, 0>>,
       <<2, -3, 6>>, <<6, 3, 2>>, <<-6, -3, -2>>, <<-6, -2, 3>>,
       <<-2, 6, 3>>, <<-6, 3, 2>>, <<0, -7, 0>>, <<2, -3, -6>>,
       <<2, -6, 3>>, <<0, 0, -7>>, <<-3, -2, -6>>, <<3, 2, 6>>,
       <<-6, 3, -2>>, <<-2, -6, -3>> >>

S_JaneDoe == <<74, 97, 110, 101, 32, 68, 111, 101>>  \* Jane Doe
S_RajPatel == <<82, 97, 106, 32, 80, 97, 116, 101, 108>>  \* Raj Patel
S_LiWei == <<76, 105, 32, 87, 101, 105>>  \* Li Wei
S_Madonna == <<77, 97, 100, 111, 110, 110, 97>>  \* Madonna
S_oKim == <<111, 32, 75, 105, 109>>  \* o Kim
S_Oxford == <<85, 110, 105, 118, 101, 114, 115, 105, 116, 121, 32, 111, 102, 32, 79, 120, 102, 111, 114, 100>>  \* University of Oxford
S_Z9 == <<90, 57>>  \* Z9
S_MIT == <<77, 73, 84>>  \* MIT
S_Stanford == <<83, 116, 97, 110, 102, 111, 114, 100, 32, 85, 110, 105, 118, 101, 114, 115, 105, 116, 121>>  \* Stanford University
S_SeismicTopic == <<83, 101, 105, 115, 109, 105, 99, 32, 73, 109, 97, 103, 105, 110, 103, 32, 97, 110, 100, 32, 73, 110, 118, 101, 114, 115, 105, 111, 110, 32, 84, 101, 99, 104, 110, 105, 113, 117, 101, 115>>  \* Seismic Imaging and Inversion Techniques
S_DeepLearning == <<68, 101, 101, 112, 32, 76, 101, 97, 114, 110, 105, 110, 103>>  \* Deep Learning
S_Geophysics == <<71, 101, 111, 112, 104, 121, 115, 105, 99, 115>>  \* Geophysics
S_ProteinFolding == <<80, 114, 111, 116, 101, 105, 110, 32, 70, 111, 108, 100, 105, 110, 103>>  \* Protein Folding
S_Summary3 == <<115, 101, 105, 115, 109, 105, 99, 32, 105, 110, 118, 101, 114, 115, 105, 111, 110, 32, 111, 102, 32, 100, 97, 116, 97>>  \* seismic inversion of data
S_Date2025 == <<50, 48, 50, 53, 45, 48, 51, 45, 48, 49>>  \* 2025-03-01
S_Date2026 == <<50, 48, 50, 54>>  \* 2026
S_Date2024 == <<50, 48, 50, 52, 45, 49, 49>>  \* 2024-11
S_Date2019 == <<50, 48, 49, 57, 45, 48, 53>>  \* 2019-05
S_DateND == <<110, 46, 100, 46>>  \* n.d.

\* One record of embeddings_metadata.json / one point payload.
AuthorMeta(i) ==
    CASE i = 1 -> [author_id |-> 1, name |-> S_JaneDoe, institution |-> S_Oxford,
                   orcid |-> 0, topics |-> <<S_SeismicTopic, S_DeepLearning>>,
                   research_summary |-> <<>>, h_index |-> 30, works_count |-> 50,
                   last_publication_date |-> S_Date2025]
      [] i = 2 -> [author_id |-> 2, name |-> S_RajPatel, institution |-> <<>>,
                   orcid |-> 0, topics |-> <<S_ProteinFolding>>,
                   research_summary |-> <<>>, h_index |-> 4, works_count |-> 2,
                   last_publication_date |-> <<>>]
      [] i = 3 -> [author_id |-> 3, name |-> S_LiWei, institution |-> S_Z9,
                   orcid |-> 3, topics |-> <<S_Geophysics>>,
                   research_summary |-> S_Summary3, h_index |-> 12, works_count |-> 10,
                   last_publication_date |-> S_DateND]
      [] i = 4 -> [author_id |-> 4, name |-> S_Madonna, institution |-> S_MIT,
                   orcid |-> 0, topics |-> <<>>,
                   research_summary |-> <<>>, h_index |-> 0, works_count |-> 3,
                   last_publication_date |-> S_Date2019]
      [] OTHER -> [author_id |-> i, name |-> <<65 + (i % 26)>> \o S_oKim,
                   institution |-> CASE i % 3 = 0 -> S_Stanford
                                     [] i % 3 = 1 -> S_MIT
                                     [] OTHER -> <<>>,
                   orcid |-> IF i % 4 = 0 THEN i ELSE 0,
                   topics |-> CASE i % 3 = 0 -> <<S_DeepLearning>>
                                [] i % 3 = 1 -> <<S_SeismicTopic>>
                                [] OTHER -> <<S_ProteinFolding, S_Geophysics>>,
                   research_summary |-> <<>>,
                   h_index |-> (i * 7) % 60,
                   works_count |-> IF i = 9 THEN 1 ELSE 3 + (i % 5),
                   last_publication_date |-> CASE i % 4 = 0 -> S_Date2026
                                               [] i % 4 = 1 -> S_Date2024
                                               [] i % 4 = 2 -> S_Date2019
                                               [] OTHER -> <<>>]

MaxCorpus == Len(CorpusVectors)

(***************************************************************************)
(* Retrieval: services/search_service.py, pipeline/index_qdrant.py         *)
(***************************************************************************)
\* np.linalg.norm(query), in units of 1/VecUnit (the vectors used have an
\* integral length)
Norm(q) ==
    LET sq == q[1] * q[1] + q[2] * q[2] + q[3] * q[3]
    IN  CHOOSE r \in 0..sq : r * r = sq

\* query / norm when norm > 0, the query itself otherwise
NormalizeQuery(q) ==
    LET norm == Norm(q)
    IN  IF norm > 0 THEN [k \in 1..3 |-> Rat(q[k], norm)]
                    ELSE [k \in 1..3 |-> Rat(q[k], VecUnit)]

\* (_inmemory_embeddings @ query)[i]: the rows are L2-normalised
Similarity(i, q) ==
    LET e  == CorpusVectors[i]
        qn == NormalizeQuery(q)
    IN  RAdd(RAdd(RMul(Rat(e[1], VecUnit), qn[1]),
                  RMul(Rat(e[2], VecUnit), qn[2])),
             RMul(Rat(e[3], VecUnit), qn[3]))

\* np.argsort(similarities)[::-1]: the indices by descending similarity.
\* The default sort is not stable, so rows of equal similarity come in any
\* order: the set of the orders the call can return.
RECURSIVE ArgsortDesc(_, _)
ArgsortDesc(rows, q) ==
    IF rows = {} THEN {<<>>}
    ELSE LET top == {i \in rows : \A j \in rows : RLeq(Similarity(j, q), Similarity(i, q))}
         IN  UNION {{<<i>> \o rest : rest \in ArgsortDesc(rows \ {i}, q)} : i \in top}

\* A retrieved candidate: {"score": ..., **meta}.  The keys that later
\* stages add are present from the start with the value None.
Candidate(i, score) ==
    [author_id |-> AuthorMeta(i).author_id, name |-> AuthorMeta(i).name,
     institution |-> AuthorMeta(i).institution, orcid |-> AuthorMeta(i).orcid,
     topics |-> AuthorMeta(i).topics,
     research_summary |-> AuthorMeta(i).research_summary,
     h_index |-> AuthorMeta(i).h_index, works_count |-> AuthorMeta(i).works_count,
     last_publication_date |-> AuthorMeta(i).last_publication_date,
     score |-> score,
     topic_score |-> None, methodology_score |-> None, seniority_score |-> None,
     recency_score |-> None, overall_score |-> None, reasoning |-> None,
     contact |-> EmptyContact, co_author_ids |-> <<>>, affiliations |-> <<>>,
     coi_flags |-> <<>>, rank |-> 0]

\* The loop of _search_inmemory over top_indices: skip the rows below
\* min_works, stop once limit results are collected.
RECURSIVE ScanTop(_, _, _, _, _)
ScanTop(order, q, limit, min_works, results) ==
    IF order = <<>> THEN results
    ELSE LET idx == Head(order)
         IN  IF AuthorMeta(idx).works_count < min_works
             THEN ScanTop(Tail(order), q, limit, min_works, results)
             ELSE LET r == Append(results, Candidate(idx, Similarity(idx, q)))
                  IN  IF Len(r) >= limit THEN r
                      ELSE ScanTop(Tail(order), q, limit, min_works, r)

\* A plausible slip: the works_count filter is missing
SearchInMemoryUnfiltered(n, q, limit, min_works) ==
    {ScanTop(order, q, limit, 0, <<>>) : order \in ArgsortDesc(1..n, q)}

\* _search_inmemory(query_vector, limit, min_works) over a corpus of n rows:
\* the results it can return.
SearchInMemory(n, q, limit, min_works) ==
    {ScanTop(order, q, limit, min_works, <<>>) : order \in ArgsortDesc(1..n, q)}

\* search_similar: the points the vector index returns for the request body
\* built there (filter must works_count >= min_works, must_not author_id =
\* each of exclude_author_ids when that list is not empty, "limit": limit),
\* by descending score.
TakeEligible(order, q, limit, min_works, exclude_author_ids) ==
    LET kept == SelectSeq(order,
                    LAMBDA i : /\ AuthorMeta(i).works_count >= min_works
                               /\ AuthorMeta(i).author_id \notin Range(exclude_author_ids))
        m    == Min2(Max2(limit, 0), Len(kept))
    IN  [k \in 1..m |-> Candidate(kept[k], Similarity(kept[k], q))]

SearchSimilar(n, q, limit, min_works, exclude_author_ids) ==
    {TakeEligible(order, q, limit, min_works, exclude_author_ids) :
        order \in ArgsortDesc(1..n, q)}

(***************************************************************************)
(* Scoring: services/llm_service.py                                        *)
(***************************************************************************)
CurrentYear == 2026
RerankCap == 30

\* set(re.findall(...)) - _STOPWORDS
Terms(s) == Range(FindWords(s)) \ STOPWORDS

\* The bigrams "w1 w2" of consecutive words, neither a stop-word
Bigrams(words) ==
    {words[i] \o <<32>> \o words[i + 1] :
        i \in {k \in 1..(Len(words) - 1) :
                  words[k] \notin STOPWORDS /\ words[k + 1] \notin STOPWORDS}}

QueryTerms(title, abstract, keywords) ==
    (Terms(Lower(title)) \cup Terms(Lower(abstract))
        \cup UNION {Range(FindWords(Lower(keywords[k]))) : k \in DOMAIN keywords})
    \ STOPWORDS

QueryBigrams(title, abstract, keywords) ==
    Bigrams(FindWords(Lower(title \o <<32>> \o abstract \o <<32>> \o JoinSp(keywords))))

KwTerms(keywords) ==
    UNION {Range(FindWords(Lower(keywords[k]))) : k \in DOMAIN keywords} \ STOPWORDS

CandidateTerms(c) ==
    (UNION {Range(FindWords(Lower(c.topics[k]))) : k \in DOMAIN c.topics} \ STOPWORDS)
    \cup (IF c.research_summary # <<>> THEN Terms(Lower(c.research_summary)) ELSE {})

CandBigrams(c) ==
    Bigrams(FindWords(Lower(JoinSp(c.topics)) \o <<32>> \o Lower(c.research_summary)))

\* phrase_hits: the keywords at least half of whose words (and at least one)
\* appear in one topic label
PhraseHits(keywords, c) ==
    Cardinality({k \in DOMAIN keywords :
        LET kw_words == Terms(Lower(keywords[k]))
        IN  /\ kw_words # {}
            /\ \E t \in DOMAIN c.topics :
                  LET n == Cardinality(kw_words \cap Terms(Lower(c.topics[t])))
                  IN  2 * n >= Cardinality(kw_words) /\ n >= 1})

Overlap(title, abstract, keywords, c) ==
    Cardinality(QueryTerms(title, abstract, keywords) \cap CandidateTerms(c))

RawTopic(title, abstract, keywords, c) ==
    LET ct == CandidateTerms(c)
        kt == KwTerms(keywords)
        cb == CandBigrams(c)
        cand_coverage == Rat(Overlap(title, abstract, keywords, c),
                             Max2(Cardinality(ct), 1))
        kw_overlap == IF kt # {}
                      THEN Rat(Cardinality(kt \cap ct), Max2(Cardinality(kt), 1))
                      ELSE RInt(0)
        bigram_overlap == IF cb # {}
                          THEN Rat(Cardinality(QueryBigrams(title, abstract, keywords) \cap cb),
                                   Max2(Cardinality(cb), 1))
                          ELSE RInt(0)
        phrase_match == IF keywords # <<>>
                        THEN Rat(PhraseHits(keywords, c), Max2(Len(keywords), 1))
                        ELSE RInt(0)
    IN  RMul(RAdd(RAdd(RMul(cand_coverage, Rat(20, 100)), RMul(kw_overlap, Rat(25, 100))),
                  RAdd(RMul(bigram_overlap, Rat(20, 100)), RMul(phrase_match, Rat(35, 100)))),
             RInt(10))

TopicScore(title, abstract, keywords, c) ==
    LET vector_sim == c.score
        vec_topic_floor == RMul(RMax(RDiv(RSub(vector_sim, Rat(25, 100)), Rat(45, 100)),
                                     RInt(0)), RInt(10))
        blend == RAdd(RMul(RawTopic(title, abstract, keywords, c), Rat(50, 100)),
                      RMul(RMul(vector_sim, RInt(10)), Rat(50, 100)))
    IN  RMin(RMax(blend, vec_topic_floor), RInt(10))

MethodologyScore(c) ==
    RMin(RMul(RMax(RDiv(RSub(c.score, Rat(2, 10)), Rat(5, 10)), RInt(0)), RInt(10)),
         RInt(10))

SeniorityScore(c) ==
    LET h == c.h_index
    IN  IF h >= 50 THEN Rat(98, 10)
        ELSE IF h >= 40 THEN Rat(95, 10)
        ELSE IF h >= 30 THEN Rat(90, 10)
        ELSE IF h >= 25 THEN Rat(85, 10)
        ELSE IF h >= 18 THEN Rat(80, 10)
        ELSE IF h >= 12 THEN Rat(75, 10)
        ELSE IF h >= 8 THEN Rat(70, 10)
        ELSE IF h >= 5 THEN Rat(60, 10)
        ELSE IF h >= 3 THEN Rat(50, 10)
        ELSE Rat(35, 10)

\* int(last_pub[:4]); -1 stands for the ValueError of a prefix that is not
\* made of digits
ParseYear(s) ==
    LET p == SubSeq(s, 1, Min2(4, Len(s)))
    IN  IF \A i \in 1..Len(p) : IsDigitCh(p[i])
        THEN SumSeq([i \in 1..Len(p) |->
                 (p[i] - 48) * (CASE Len(p) - i = 0 -> 1 [] Len(p) - i = 1 -> 10
                                  [] Len(p) - i = 2 -> 100 [] OTHER -> 1000)])
        ELSE -1

RecencyScore(c) ==
    LET last_pub == c.last_publication_date
    IN  IF last_pub # <<>> /\ Len(last_pub) >= 4
        THEN IF ParseYear(last_pub) = -1 THEN Rat(50, 10)
             ELSE LET years_ago == CurrentYear - ParseYear(last_pub)
                  IN  IF years_ago <= 0 THEN Rat(98, 10)
                      ELSE IF years_ago <= 1 THEN Rat(95, 10)
                      ELSE IF years_ago <= 2 THEN Rat(85, 10)
                      ELSE IF years_ago <= 3 THEN Rat(75, 10)
                      ELSE IF years_ago <= 5 THEN Rat(55, 10)
                      ELSE Rat(30, 10)
        ELSE Rat(50, 10)

\* A plausible slip: the four dimensions weigh the same
OverallEqualWeights(topic, methodology, seniority, recency) ==
    RMul(RAdd(RAdd(topic, methodology), RAdd(seniority, recency)), Rat(25, 100))

Overall(topic, methodology, seniority, recency) ==
    RAdd(RAdd(RMul(topic, Rat(35, 100)), RMul(methodology, Rat(30, 100))),
         RAdd(RMul(seniority, Rat(15, 100)), RMul(recency, Rat(20, 100))))

\* a >= b for strings (lexicographic, by character code)
RECURSIVE StrGeq(_, _)
StrGeq(a, b) ==
    IF b = <<>> THEN TRUE
    ELSE IF a = <<>> THEN FALSE
    ELSE IF Head(a) # Head(b) THEN Head(a) > Head(b)
    ELSE StrGeq(Tail(a), Tail(b))

\* reasoning_parts, each part as <<template, number>>
Reasoning(title, abstract, keywords, c) ==
    LET topic == TopicScore(title, abstract, keywords, c)
        meth  == MethodologyScore(c)
        ov    == Overlap(title, abstract, keywords, c)
        h     == c.h_index
        p1 == IF RLeq(RInt(7), topic) THEN <<<<"Strong topic alignment", ov>>>>
              ELSE IF RLeq(RInt(4), topic) THEN <<<<"Good topic relevance", ov>>>>
              ELSE IF ov > 0 THEN <<<<"Some topic overlap", ov>>>>
              ELSE <<<<"Related domain expertise", 0>>>>
        p2 == IF RLeq(RInt(7), meth) THEN <<<<"strong methodological match", 0>>>>
              ELSE IF RLeq(RInt(4), meth) THEN <<<<"relevant methodological expertise", 0>>>>
              ELSE <<>>
        p3 == IF h >= 25 THEN <<<<"senior researcher", h>>>>
              ELSE IF h >= 12 THEN <<<<"established researcher", h>>>>
              ELSE IF h >= 5 THEN <<<<"active researcher", h>>>>
              ELSE <<>>
        p4 == IF c.last_publication_date # <<>>
                 /\ StrGeq(c.last_publication_date, <<50, 48, 50, 52>>)  \* "2024"
              THEN <<<<"actively publishing", 0>>>>
              ELSE <<>>
    IN  p1 \o p2 \o p3 \o p4

\* The body of the loop of _mock_rerank: the scored copy of one candidate
MockScore(title, abstract, keywords, c) ==
    LET topic == TopicScore(title, abstract, keywords, c)
        meth  == MethodologyScore(c)
        sen   == SeniorityScore(c)
        rec   == RecencyScore(c)
    IN  [c EXCEPT !.topic_score = Round1(topic),
                  !.methodology_score = Round1(meth),
                  !.seniority_score = Round1(sen),
                  !.recency_score = Round1(rec),
                  !.overall_score = Round1(Overall(topic, meth, sen, rec)),
                  !.reasoning = Reasoning(title, abstract, keywords, c)]

\* list.sort(key=lambda x: x["overall_score"], reverse=True): a stable sort,
\* equal keys keep their order
RECURSIVE InsertDesc(_, _)
InsertDesc(sorted, x) ==
    IF sorted = <<>> THEN <<x>>
    ELSE IF RLt(Head(sorted).overall_score, x.overall_score)
         THEN <<x>> \o sorted
         ELSE <<Head(sorted)>> \o InsertDesc(Tail(sorted), x)

RECURSIVE SortByOverall(_)
SortByOverall(l) ==
    IF l = <<>> THEN <<>>
    ELSE InsertDesc(SortByOverall(SubSeq(l, 1, Len(l) - 1)), l[Len(l)])

MockRerank(title, abstract, keywords, cands) ==
    SortByOverall([k \in 1..Len(cands) |-> MockScore(title, abstract, keywords, cands[k])])

\* The loop of _live_rerank over the parsed rankings: an entry whose
\* candidate_index is out of range is dropped, the others copy their scores
\* onto a copy of the candidate they name.
RECURSIVE LiveScored(_, _)
LiveScored(rankings, cands) ==
    IF rankings = <<>> THEN <<>>
    ELSE LET rank == Head(rankings)
             idx  == rank.candidate_index
         IN  (IF 0 <= idx /\ idx < Len(cands)
              THEN <<[cands[idx + 1] EXCEPT !.topic_score = rank.topic_score,
                                            !.methodology_score = rank.methodology_score,
                                            !.seniority_score = rank.seniority_score,
                                            !.recency_score = rank.recency_score,
                                            !.overall_score = rank.overall_score,
                                            !.reasoning = rank.reasoning]>>
              ELSE <<>>)
             \o LiveScored(Tail(rankings), cands)

LiveRerank(rankings, cands) == SortByOverall(LiveScored(rankings, cands))

\* The except branch of find_reviewers: the vector scores stand in
FallbackScore(c) ==
    [c EXCEPT !.overall_score = RMul(c.score, RInt(10)),
              !.topic_score = RMul(c.score, RInt(10)),
              !.methodology_score = Rat(50, 10),
              !.seniority_score = RMin(Rat(c.h_index, 5), RInt(10)),
              !.recency_score = Rat(50, 10),
              !.reasoning = <<<<"Ranked by vector similarity (LLM re-ranking unavailable)", 0>>>>]

FallbackRerank(cands) == [k \in 1..Len(cands) |-> FallbackScore(cands[k])]

\* candidates[:min(len(candidates), 30)]
CandidatesForRerank(cands) == SubSeq(cands, 1, Min2(Len(cands), RerankCap))

(***************************************************************************)
(* Contact enrichment: services/contact_service.py                         *)
(***************************************************************************)
\* _INSTITUTION_DOMAINS in insertion order, each entry <<key, domain>>
INSTITUTION_DOMAINS ==
    <<
      <<<<105, 109, 112, 101, 114, 105, 97, 108, 32, 99, 111, 108, 108, 101, 103, 101, 32, 108, 111, 110, 100, 111, 110>>,
        <<105, 109, 112, 101, 114, 105, 97, 108, 46, 97, 99, 46, 117, 107>>>>,  \* imperial college london: imperial.ac.uk
      <<<<117, 110, 105, 118, 101, 114, 115, 105, 116, 121, 32, 111, 102, 32, 111, 120, 102, 111, 114, 100>>,
        <<111, 120, 46, 97, 99, 46, 117, 107>>>>,  \* university of oxford: ox.ac.uk
      <<<<117, 110, 105, 118, 101, 114, 115, 105, 116, 121, 32, 111, 102, 32, 99, 97, 109, 98, 114, 105, 100, 103, 101>>,
        <<99, 97, 109, 46, 97, 99, 46, 117, 107>>>>,  \* university of cambridge: cam.ac.uk
      <<<<109, 105, 116>>,
        <<109, 105, 116, 46, 101, 100, 117>>>>,  \* mit: mit.edu
      <<<<109, 97, 115, 115, 97, 99, 104, 117, 115, 101, 116, 116, 115, 32, 105, 110, 115, 116, 105, 116, 117, 116, 101, 32, 111, 102, 32, 116, 101, 99, 104, 110, 111, 108, 111, 103, 121>>,
        <<109, 105, 116, 46, 101, 100, 117>>>>,  \* massachusetts institute of technology: mit.edu
      <<<<115, 116, 97, 110, 102, 111, 114, 100, 32, 117, 110, 105, 118, 101, 114, 115, 105, 116, 121>>,
        <<115, 116, 97, 110, 102, 111, 114, 100, 46, 101, 100, 117>>>>,  \* stanford university: stanford.edu
      <<<<104, 97, 114, 118, 97, 114, 100, 32, 117, 110, 105, 118, 101, 114, 115, 105, 116, 121>>,
        <<104, 97, 114, 118, 97, 114, 100, 46, 101, 100, 117>>>>,  \* harvard university: harvard.edu
      <<<<99, 97, 108, 116, 101, 99, 104>>,
        <<99, 97, 108, 116, 101, 99, 104, 46, 101, 100, 117>>>>,  \* caltech: caltech.edu
      <<<<99, 97, 108, 105, 102, 111, 114, 110, 105, 97, 32, 105, 110, 115, 116, 105, 116, 117, 116, 101, 32, 111, 102, 32, 116, 101, 99, 104, 110, 111, 108, 111, 103, 121>>,
        <<99, 97, 108, 116, 101, 99, 104, 46, 101, 100, 117>>>>,  \* california institute of technology: caltech.edu
      <<<<117, 110, 105, 118, 101, 114, 115, 105, 116, 121, 32, 111, 102, 32, 99, 97, 108, 105, 102, 111, 114, 110, 105, 97, 32, 98, 101, 114, 107, 101, 108, 101, 121>>,
        <<98, 101, 114, 107, 101, 108, 101, 121, 46, 101, 100, 117>>>>,  \* university of california berkeley: berkeley.edu
      <<<<117, 99, 32, 98, 101, 114, 107, 101, 108, 101, 121>>,
        <<98, 101, 114, 107, 101, 108, 101, 121, 46, 101, 100, 117>>>>,  \* uc berkeley: berkeley.edu
      <<<<112, 114, 105, 110, 99, 101, 116, 111, 110, 32, 117, 110, 105, 118, 101, 114, 115, 105, 116, 121>>,
        <<112, 114, 105, 110, 99, 101, 116, 111, 110, 46, 101, 100, 117>>>>,  \* princeton university: princeton.edu
      <<<<121, 97, 108, 101, 32, 117, 110, 105, 118, 101, 114, 115, 105, 116, 121>>,
        <<121, 97, 108, 101, 46, 101, 100, 117>>>>,  \* yale university: yale.edu
      <<<<99, 111, 108, 117, 109, 98, 105, 97, 32, 117, 110, 105, 118, 101, 114, 115, 105, 116, 121>>,
        <<99, 111, 108, 117, 109, 98, 105, 97, 46, 101, 100, 117>>>>,  \* columbia university: columbia.edu
      <<<<117, 110, 105, 118, 101, 114, 115, 105, 116, 121, 32, 111, 102, 32, 99, 104, 105, 99, 97, 103, 111>>,
        <<117, 99, 104, 105, 99, 97, 103, 111, 46, 101, 100, 117>>>>,  \* university of chicago: uchicago.edu
      <<<<99, 97, 114, 110, 101, 103, 105, 101, 32, 109, 101, 108, 108, 111, 110, 32, 117, 110, 105, 118, 101, 114, 115, 105, 116, 121>>,
        <<99, 109, 117, 46, 101, 100, 117>>>>,  \* carnegie mellon university: cmu.edu
      <<<<99, 111, 114, 110, 101, 108, 108, 32, 117, 110, 105, 118, 101, 114, 115, 105, 116, 121>>,
        <<99, 111, 114, 110, 101, 108, 108, 46, 101, 100, 117>>>>,  \* cornell university: cornell.edu
      <<<<117, 110, 105, 118, 101, 114, 115, 105, 116, 121, 32, 111, 102, 32, 109, 105, 99, 104, 105, 103, 97, 110>>,
        <<117, 109, 105, 99, 104, 46, 101, 100, 117>>>>,  \* university of michigan: umich.edu
      <<<<117, 110, 105, 118, 101, 114, 115, 105, 116, 121, 32, 111, 102, 32, 112, 101, 110, 110, 115, 121, 108, 118, 97, 110, 105, 97>>,
        <<117, 112, 101, 110, 110, 46, 101, 100, 117>>>>,  \* university of pennsylvania: upenn.edu
      <<<<100, 117, 107, 101, 32, 117, 110, 105, 118, 101, 114, 115, 105, 116, 121>>,
        <<100, 117, 107, 101, 46, 101, 100, 117>>>>,  \* duke university: duke.edu
      <<<<117, 110, 105, 118, 101, 114, 115, 105, 116, 121, 32, 111, 102, 32, 116, 111, 114, 111, 110, 116, 111>>,
        <<117, 116, 111, 114, 111, 110, 116, 111, 46, 99, 97>>>>,  \* university of toronto: utoronto.ca
      <<<<101, 116, 104, 32, 122, 117, 114, 105, 99, 104>>,
        <<101, 116, 104, 122, 46, 99, 104>>>>,  \* eth zurich: ethz.ch
      <<<<117, 110, 105, 118, 101, 114, 115, 105, 116, 121, 32, 111, 102, 32, 116, 111, 107, 121, 111>>,
        <<117, 45, 116, 111, 107, 121, 111, 46, 97, 99, 46, 106, 112>>>>,  \* university of tokyo: u-tokyo.ac.jp
      <<<<110, 97, 116, 105, 111, 110, 97, 108, 32, 117, 110, 105, 118, 101, 114, 115, 105, 116, 121, 32, 111, 102, 32, 115, 105, 110, 103, 97, 112, 111, 114, 101>>,
        <<110, 117, 115, 46, 101, 100, 117, 46, 115, 103>>>>,  \* national university of singapore: nus.edu.sg
      <<<<112, 101, 107, 105, 110, 103, 32, 117, 110, 105, 118, 101, 114, 115, 105, 116, 121>>,
        <<112, 107, 117, 46, 101, 100, 117, 46, 99, 110>>>>,  \* peking university: pku.edu.cn
      <<<<116, 115, 105, 110, 103, 104, 117, 97, 32, 117, 110, 105, 118, 101, 114, 115, 105, 116, 121>>,
        <<116, 115, 105, 110, 103, 104, 117, 97, 46, 101, 100, 117, 46, 99, 110>>>>,  \* tsinghua university: tsinghua.edu.cn
      <<<<117, 110, 105, 118, 101, 114, 115, 105, 116, 121, 32, 111, 102, 32, 109, 101, 108, 98, 111, 117, 114, 110, 101>>,
        <<117, 110, 105, 109, 101, 108, 98, 46, 101, 100, 117, 46, 97, 117>>>>,  \* university of melbourne: unimelb.edu.au
      <<<<97, 117, 115, 116, 114, 97, 108, 105, 97, 110, 32, 110, 97, 116, 105, 111, 110, 97, 108, 32, 117, 110, 105, 118, 101, 114, 115, 105, 116, 121>>,
        <<97, 110, 117, 46, 101, 100, 117, 46, 97, 117>>>>,  \* australian national university: anu.edu.au
      <<<<117, 110, 105, 118, 101, 114, 115, 105, 116, 121, 32, 111, 102, 32, 101, 100, 105, 110, 98, 117, 114, 103, 104>>,
        <<101, 100, 46, 97, 99, 46, 117, 107>>>>,  \* university of edinburgh: ed.ac.uk
      <<<<117, 99, 108>>,
        <<117, 99, 108, 46, 97, 99, 46, 117, 107>>>>,  \* ucl: ucl.ac.uk
      <<<<117, 110, 105, 118, 101, 114, 115, 105, 116, 121, 32, 99, 111, 108, 108, 101, 103, 101, 32, 108, 111, 110, 100, 111, 110>>,
        <<117, 99, 108, 46, 97, 99, 46, 117, 107>>>>,  \* university college london: ucl.ac.uk
      <<<<107, 105, 110, 103, 39, 115, 32, 99, 111, 108, 108, 101, 103, 101, 32, 108, 111, 110, 100, 111, 110>>,
        <<107, 99, 108, 46, 97, 99, 46, 117, 107>>>>,  \* king's college london: kcl.ac.uk
      <<<<117, 110, 105, 118, 101, 114, 115, 105, 116, 121, 32, 111, 102, 32, 109, 97, 110, 99, 104, 101, 115, 116, 101, 114>>,
        <<109, 97, 110, 99, 104, 101, 115, 116, 101, 114, 46, 97, 99, 46, 117, 107>>>>,  \* university of manchester: manchester.ac.uk
      <<<<117, 110, 105, 118, 101, 114, 115, 105, 116, 121, 32, 111, 102, 32, 98, 114, 105, 115, 116, 111, 108>>,
        <<98, 114, 105, 115, 116, 111, 108, 46, 97, 99, 46, 117, 107>>>>,  \* university of bristol: bristol.ac.uk
      <<<<117, 110, 105, 118, 101, 114, 115, 105, 116, 121, 32, 111, 102, 32, 108, 101, 101, 100, 115>>,
        <<108, 101, 101, 100, 115, 46, 97, 99, 46, 117, 107>>>>,  \* university of leeds: leeds.ac.uk
      <<<<117, 110, 105, 118, 101, 114, 115, 105, 116, 121, 32, 111, 102, 32, 119, 97, 114, 119, 105, 99, 107>>,
        <<119, 97, 114, 119, 105, 99, 107, 46, 97, 99, 46, 117, 107>>>>,  \* university of warwick: warwick.ac.uk
      <<<<117, 110, 105, 118, 101, 114, 115, 105, 116, 121, 32, 111, 102, 32, 103, 108, 97, 115, 103, 111, 119>>,
        <<103, 108, 97, 115, 103, 111, 119, 46, 97, 99, 46, 117, 107>>>>,  \* university of glasgow: glasgow.ac.uk
      <<<<117, 110, 105, 118, 101, 114, 115, 105, 116, 121, 32, 111, 102, 32, 98, 105, 114, 109, 105, 110, 103, 104, 97, 109>>,
        <<98, 104, 97, 109, 46, 97, 99, 46, 117, 107>>>>,  \* university of birmingham: bham.ac.uk
      <<<<103, 101, 111, 114, 103, 105, 97, 32, 105, 110, 115, 116, 105, 116, 117, 116, 101, 32, 111, 102, 32, 116, 101, 99, 104, 110, 111, 108, 111, 103, 121>>,
        <<103, 97, 116, 101, 99, 104, 46, 101, 100, 117>>>>,  \* georgia institute of technology: gatech.edu
      <<<<103, 101, 111, 114, 103, 105, 97, 32, 116, 101, 99, 104>>,
        <<103, 97, 116, 101, 99, 104, 46, 101, 100, 117>>>>,  \* georgia tech: gatech.edu
      <<<<117, 110, 105, 118, 101, 114, 115, 105, 116, 121, 32, 111, 102, 32, 119, 97, 115, 104, 105, 110, 103, 116, 111, 110>>,
        <<117, 119, 46, 101, 100, 117>>>>,  \* university of washington: uw.edu
      <<<<117, 110, 105, 118, 101, 114, 115, 105, 116, 121, 32, 111, 102, 32, 119, 105, 115, 99, 111, 110, 115, 105, 110>>,
        <<119, 105, 115, 99, 46, 101, 100, 117>>>>,  \* university of wisconsin: wisc.edu
      <<<<117, 110, 105, 118, 101, 114, 115, 105, 116, 121, 32, 111, 102, 32, 116, 101, 120, 97, 115, 32, 97, 116, 32, 97, 117, 115, 116, 105, 110>>,
        <<117, 116, 101, 120, 97, 115, 46, 101, 100, 117>>>>,  \* university of texas at austin: utexas.edu
      <<<<117, 110, 105, 118, 101, 114, 115, 105, 116, 121, 32, 111, 102, 32, 105, 108, 108, 105, 110, 111, 105, 115>>,
        <<105, 108, 108, 105, 110, 111, 105, 115, 46, 101, 100, 117>>>>,  \* university of illinois: illinois.edu
      <<<<117, 110, 105, 118, 101, 114, 115, 105, 116, 121, 32, 111, 102, 32, 109, 105, 110, 110, 101, 115, 111, 116, 97>>,
        <<117, 109, 110, 46, 101, 100, 117>>>>,  \* university of minnesota: umn.edu
      <<<<117, 110, 105, 118, 101, 114, 115, 105, 116, 121, 32, 111, 102, 32, 102, 108, 111, 114, 105, 100, 97>>,
        <<117, 102, 108, 46, 101, 100, 117>>>>,  \* university of florida: ufl.edu
      <<<<111, 104, 105, 111, 32, 115, 116, 97, 116, 101, 32, 117, 110, 105, 118, 101, 114, 115, 105, 116, 121>>,
        <<111, 115, 117, 46, 101, 100, 117>>>>,  \* ohio state university: osu.edu
      <<<<112, 101, 110, 110, 32, 115, 116, 97, 116, 101, 32, 117, 110, 105, 118, 101, 114, 115, 105, 116, 121>>,
        <<112, 115, 117, 46, 101, 100, 117>>>>,  \* penn state university: psu.edu
      <<<<112, 101, 110, 110, 115, 121, 108, 118, 97, 110, 105, 97, 32, 115, 116, 97, 116, 101, 32, 117, 110, 105, 118, 101, 114, 115, 105, 116, 121>>,
        <<112, 115, 117, 46, 101, 100, 117>>>>,  \* pennsylvania state university: psu.edu
      <<<<117, 110, 105, 118, 101, 114, 115, 105, 116, 121, 32, 111, 102, 32, 109, 97, 114, 121, 108, 97, 110, 100>>,
        <<117, 109, 100, 46, 101, 100, 117>>>>,  \* university of maryland: umd.edu
      <<<<117, 110, 105, 118, 101, 114, 115, 105, 116, 121, 32, 111, 102, 32, 118, 105, 114, 103, 105, 110, 105, 97>>,
        <<118, 105, 114, 103, 105, 110, 105, 97, 46, 101, 100, 117>>>>,  \* university of virginia: virginia.edu
      <<<<117, 110, 105, 118, 101, 114, 115, 105, 116, 121, 32, 111, 102, 32, 110, 111, 114, 116, 104, 32, 99, 97, 114, 111, 108, 105, 110, 97>>,
        <<117, 110, 99, 46, 101, 100, 117>>>>,  \* university of north carolina: unc.edu
      <<<<110, 111, 114, 116, 104, 119, 101, 115, 116, 101, 114, 110, 32, 117, 110, 105, 118, 101, 114, 115, 105, 116, 121>>,
        <<110, 111, 114, 116, 104, 119, 101, 115, 116, 101, 114, 110, 46, 101, 100, 117>>>>,  \* northwestern university: northwestern.edu
      <<<<117, 110, 105, 118, 101, 114, 115, 105, 116, 121, 32, 111, 102, 32, 115, 111, 117, 116, 104, 101, 114, 110, 32, 99, 97, 108, 105, 102, 111, 114, 110, 105, 97>>,
        <<117, 115, 99, 46, 101, 100, 117>>>>,  \* university of southern california: usc.edu
      <<<<110, 101, 119, 32, 121, 111, 114, 107, 32, 117, 110, 105, 118, 101, 114, 115, 105, 116, 121>>,
        <<110, 121, 117, 46, 101, 100, 117>>>>,  \* new york university: nyu.edu
      <<<<98, 111, 115, 116, 111, 110, 32, 117, 110, 105, 118, 101, 114, 115, 105, 116, 121>>,
        <<98, 117, 46, 101, 100, 117>>>>,  \* boston university: bu.edu
      <<<<114, 105, 99, 101, 32, 117, 110, 105, 118, 101, 114, 115, 105, 116, 121>>,
        <<114, 105, 99, 101, 46, 101, 100, 117>>>>,  \* rice university: rice.edu
      <<<<112, 117, 114, 100, 117, 101, 32, 117, 110, 105, 118, 101, 114, 115, 105, 116, 121>>,
        <<112, 117, 114, 100, 117, 101, 46, 101, 100, 117>>>>,  \* purdue university: purdue.edu
      <<<<105, 110, 100, 105, 97, 110, 97, 32, 117, 110, 105, 118, 101, 114, 115, 105, 116, 121>>,
        <<105, 110, 100, 105, 97, 110, 97, 46, 101, 100, 117>>>>,  \* indiana university: indiana.edu
      <<<<109, 105, 99, 104, 105, 103, 97, 110, 32, 115, 116, 97, 116, 101, 32, 117, 110, 105, 118, 101, 114, 115, 105, 116, 121>>,
        <<109, 115, 117, 46, 101, 100, 117>>>>,  \* michigan state university: msu.edu
      <<<<97, 114, 105, 122, 111, 110, 97, 32, 115, 116, 97, 116, 101, 32, 117, 110, 105, 118, 101, 114, 115, 105, 116, 121>>,
        <<97, 115, 117, 46, 101, 100, 117>>>>,  \* arizona state university: asu.edu
      <<<<117, 110, 105, 118, 101, 114, 115, 105, 116, 121, 32, 111, 102, 32, 99, 111, 108, 111, 114, 97, 100, 111>>,
        <<99, 111, 108, 111, 114, 97, 100, 111, 46, 101, 100, 117>>>>,  \* university of colorado: colorado.edu
      <<<<119, 97, 115, 104, 105, 110, 103, 116, 111, 110, 32, 117, 110, 105, 118, 101, 114, 115, 105, 116, 121, 32, 105, 110, 32, 115, 116, 46, 32, 108, 111, 117, 105, 115>>,
        <<119, 117, 115, 116, 108, 46, 101, 100, 117>>>>,  \* washington university in st. louis: wustl.edu
      <<<<101, 109, 111, 114, 121, 32, 117, 110, 105, 118, 101, 114, 115, 105, 116, 121>>,
        <<101, 109, 111, 114, 121, 46, 101, 100, 117>>>>,  \* emory university: emory.edu
      <<<<118, 97, 110, 100, 101, 114, 98, 105, 108, 116, 32, 117, 110, 105, 118, 101, 114, 115, 105, 116, 121>>,
        <<118, 97, 110, 100, 101, 114, 98, 105, 108, 116, 46, 101, 100, 117>>>>,  \* vanderbilt university: vanderbilt.edu
      <<<<106, 111, 104, 110, 115, 32, 104, 111, 112, 107, 105, 110, 115, 32, 117, 110, 105, 118, 101, 114, 115, 105, 116, 121>>,
        <<106, 104, 117, 46, 101, 100, 117>>>>,  \* johns hopkins university: jhu.edu
      <<<<98, 114, 111, 119, 110, 32, 117, 110, 105, 118, 101, 114, 115, 105, 116, 121>>,
        <<98, 114, 111, 119, 110, 46, 101, 100, 117>>>>,  \* brown university: brown.edu
      <<<<100, 97, 114, 116, 109, 111, 117, 116, 104, 32, 99, 111, 108, 108, 101, 103, 101>>,
        <<100, 97, 114, 116, 109, 111, 117, 116, 104, 46, 101, 100, 117>>>>,  \* dartmouth college: dartmouth.edu
      <<<<117, 110, 105, 118, 101, 114, 115, 105, 116, 121, 32, 111, 102, 32, 99, 97, 108, 105, 102, 111, 114, 110, 105, 97, 32, 108, 111, 115, 32, 97, 110, 103, 101, 108, 101, 115>>,
        <<117, 99, 108, 97, 46, 101, 100, 117>>>>,  \* university of california los angeles: ucla.edu
      <<<<117, 99, 108, 97>>,
        <<117, 99, 108, 97, 46, 101, 100, 117>>>>,  \* ucla: ucla.edu
      <<<<117, 110, 105, 118, 101, 114, 115, 105, 116, 121, 32, 111, 102, 32, 99, 97, 108, 105, 102, 111, 114, 110, 105, 97, 32, 115, 97, 110, 32, 100, 105, 101, 103, 111>>,
        <<117, 99, 115, 100, 46, 101, 100, 117>>>>,  \* university of california san diego: ucsd.edu
      <<<<117, 99, 115, 100>>,
        <<117, 99, 115, 100, 46, 101, 100, 117>>>>,  \* ucsd: ucsd.edu
      <<<<117, 110, 105, 118, 101, 114, 115, 105, 116, 121, 32, 111, 102, 32, 99, 97, 108, 105, 102, 111, 114, 110, 105, 97, 32, 115, 97, 110, 32, 102, 114, 97, 110, 99, 105, 115, 99, 111>>,
        <<117, 99, 115, 102, 46, 101, 100, 117>>>>,  \* university of california san francisco: ucsf.edu
      <<<<117, 99, 115, 102>>,
        <<117, 99, 115, 102, 46, 101, 100, 117>>>>,  \* ucsf: ucsf.edu
      <<<<117, 110, 105, 118, 101, 114, 115, 105, 116, 121, 32, 111, 102, 32, 99, 97, 108, 105, 102, 111, 114, 110, 105, 97, 32, 100, 97, 118, 105, 115>>,
        <<117, 99, 100, 97, 118, 105, 115, 46, 101, 100, 117>>>>,  \* university of california davis: ucdavis.edu
      <<<<117, 110, 105, 118, 101, 114, 115, 105, 116, 121, 32, 111, 102, 32, 99, 97, 108, 105, 102, 111, 114, 110, 105, 97, 32, 105, 114, 118, 105, 110, 101>>,
        <<117, 99, 105, 46, 101, 100, 117>>>>,  \* university of california irvine: uci.edu
      <<<<117, 110, 105, 118, 101, 114, 115, 105, 116, 121, 32, 111, 102, 32, 99, 97, 108, 105, 102, 111, 114, 110, 105, 97, 32, 115, 97, 110, 116, 97, 32, 98, 97, 114, 98, 97, 114, 97>>,
        <<117, 99, 115, 98, 46, 101, 100, 117>>>>,  \* university of california santa barbara: ucsb.edu
      <<<<117, 110, 105, 118, 101, 114, 115, 105, 116, 121, 32, 111, 102, 32, 99, 97, 108, 105, 102, 111, 114, 110, 105, 97, 32, 115, 97, 110, 116, 97, 32, 99, 114, 117, 122>>,
        <<117, 99, 115, 99, 46, 101, 100, 117>>>>,  \* university of california santa cruz: ucsc.edu
      <<<<109, 97, 120, 32, 112, 108, 97, 110, 99, 107>>,
        <<109, 112, 103, 46, 100, 101>>>>,  \* max planck: mpg.de
      <<<<99, 110, 114, 115>>,
        <<99, 110, 114, 115, 46, 102, 114>>>>,  \* cnrs: cnrs.fr
      <<<<105, 110, 114, 105, 97>>,
        <<105, 110, 114, 105, 97, 46, 102, 114>>>>,  \* inria: inria.fr
      <<<<117, 110, 105, 118, 101, 114, 115, 105, 116, 121, 32, 111, 102, 32, 112, 97, 114, 105, 115>>,
        <<117, 45, 112, 97, 114, 105, 115, 46, 102, 114>>>>,  \* university of paris: u-paris.fr
      <<<<115, 111, 114, 98, 111, 110, 110, 101>>,
        <<115, 111, 114, 98, 111, 110, 110, 101, 45, 117, 110, 105, 118, 101, 114, 115, 105, 116, 101, 46, 102, 114>>>>,  \* sorbonne: sorbonne-universite.fr
      <<<<100, 101, 108, 102, 116, 32, 117, 110, 105, 118, 101, 114, 115, 105, 116, 121, 32, 111, 102, 32, 116, 101, 99, 104, 110, 111, 108, 111, 103, 121>>,
        <<116, 117, 100, 101, 108, 102, 116, 46, 110, 108>>>>,  \* delft university of technology: tudelft.nl
      <<<<117, 110, 105, 118, 101, 114, 115, 105, 116, 121, 32, 111, 102, 32, 97, 109, 115, 116, 101, 114, 100, 97, 109>>,
        <<117, 118, 97, 46, 110, 108>>>>,  \* university of amsterdam: uva.nl
      <<<<107, 97, 114, 111, 108, 105, 110, 115, 107, 97, 32, 105, 110, 115, 116, 105, 116, 117, 116, 101>>,
        <<107, 105, 46, 115, 101>>>>,  \* karolinska institute: ki.se
      <<<<116, 101, 99, 104, 110, 105, 99, 97, 108, 32, 117, 110, 105, 118, 101, 114, 115, 105, 116, 121, 32, 111, 102, 32, 109, 117, 110, 105, 99, 104>>,
        <<116, 117, 109, 46, 100, 101>>>>,  \* technical university of munich: tum.de
      <<<<117, 110, 105, 118, 101, 114, 115, 105, 116, 121, 32, 111, 102, 32, 109, 117, 110, 105, 99, 104>>,
        <<108, 109, 117, 46, 100, 101>>>>,  \* university of munich: lmu.de
      <<<<104, 117, 109, 98, 111, 108, 100, 116, 32, 117, 110, 105, 118, 101, 114, 115, 105, 116, 121>>,
        <<104, 117, 45, 98, 101, 114, 108, 105, 110, 46, 100, 101>>>>,  \* humboldt university: hu-berlin.de
      <<<<117, 110, 105, 118, 101, 114, 115, 105, 116, 121, 32, 111, 102, 32, 104, 101, 105, 100, 101, 108, 98, 101, 114, 103>>,
        <<117, 110, 105, 45, 104, 101, 105, 100, 101, 108, 98, 101, 114, 103, 46, 100, 101>>>>,  \* university of heidelberg: uni-heidelberg.de
      <<<<114, 119, 116, 104, 32, 97, 97, 99, 104, 101, 110>>,
        <<114, 119, 116, 104, 45, 97, 97, 99, 104, 101, 110, 46, 100, 101>>>>,  \* rwth aachen: rwth-aachen.de
      <<<<117, 110, 105, 118, 101, 114, 115, 105, 116, 121, 32, 111, 102, 32, 98, 111, 108, 111, 103, 110, 97>>,
        <<117, 110, 105, 98, 111, 46, 105, 116>>>>,  \* university of bologna: unibo.it
      <<<<115, 97, 112, 105, 101, 110, 122, 97, 32, 117, 110, 105, 118, 101, 114, 115, 105, 116, 121>>,
        <<117, 110, 105, 114, 111, 109, 97, 49, 46, 105, 116>>>>,  \* sapienza university: uniroma1.it
      <<<<112, 111, 108, 105, 116, 101, 99, 110, 105, 99, 111, 32, 100, 105, 32, 109, 105, 108, 97, 110, 111>>,
        <<112, 111, 108, 105, 109, 105, 46, 105, 116>>>>,  \* politecnico di milano: polimi.it
      <<<<117, 110, 105, 118, 101, 114, 115, 105, 116, 121, 32, 111, 102, 32, 99, 111, 112, 101, 110, 104, 97, 103, 101, 110>>,
        <<107, 117, 46, 100, 107>>>>,  \* university of copenhagen: ku.dk
      <<<<117, 110, 105, 118, 101, 114, 115, 105, 116, 121, 32, 111, 102, 32, 104, 101, 108, 115, 105, 110, 107, 105>>,
        <<104, 101, 108, 115, 105, 110, 107, 105, 46, 102, 105>>>>,  \* university of helsinki: helsinki.fi
      <<<<117, 110, 105, 118, 101, 114, 115, 105, 116, 121, 32, 111, 102, 32, 111, 115, 108, 111>>,
        <<117, 105, 111, 46, 110, 111>>>>,  \* university of oslo: uio.no
      <<<<117, 110, 105, 118, 101, 114, 115, 105, 116, 121, 32, 111, 102, 32, 122, 117, 114, 105, 99, 104>>,
        <<117, 122, 104, 46, 99, 104>>>>,  \* university of zurich: uzh.ch
      <<<<101, 112, 102, 108>>,
        <<101, 112, 102, 108, 46, 99, 104>>>>,  \* epfl: epfl.ch
      <<<<98, 101, 110, 45, 103, 117, 114, 105, 111, 110, 32, 117, 110, 105, 118, 101, 114, 115, 105, 116, 121>>,
        <<98, 103, 117, 46, 97, 99, 46, 105, 108>>>>,  \* ben-gurion university: bgu.ac.il
      <<<<116, 101, 99, 104, 110, 105, 111, 110>>,
        <<116, 101, 99, 104, 110, 105, 111, 110, 46, 97, 99, 46, 105, 108>>>>,  \* technion: technion.ac.il
      <<<<104, 101, 98, 114, 101, 119, 32, 117, 110, 105, 118, 101, 114, 115, 105, 116, 121>>,
        <<104, 117, 106, 105, 46, 97, 99, 46, 105, 108>>>>,  \* hebrew university: huji.ac.il
      <<<<119, 101, 105, 122, 109, 97, 110, 110, 32, 105, 110, 115, 116, 105, 116, 117, 116, 101>>,
        <<119, 101, 105, 122, 109, 97, 110, 110, 46, 97, 99, 46, 105, 108>>>>,  \* weizmann institute: weizmann.ac.il
      <<<<107, 111, 114, 101, 97, 110, 32, 97, 100, 118, 97, 110, 99, 101, 100, 32, 105, 110, 115, 116, 105, 116, 117, 116, 101, 32, 111, 102, 32, 115, 99, 105, 101, 110, 99, 101, 32, 97, 110, 100, 32, 116, 101, 99, 104, 110, 111, 108, 111, 103, 121>>,
        <<107, 97, 105, 115, 116, 46, 97, 99, 46, 107, 114>>>>,  \* korean advanced institute of science and technology: kaist.ac.kr
      <<<<107, 97, 105, 115, 116>>,
        <<107, 97, 105, 115, 116, 46, 97, 99, 46, 107, 114>>>>,  \* kaist: kaist.ac.kr
      <<<<115, 101, 111, 117, 108, 32, 110, 97, 116, 105, 111, 110, 97, 108, 32, 117, 110, 105, 118, 101, 114, 115, 105, 116, 121>>,
        <<115, 110, 117, 46, 97, 99, 46, 107, 114>>>>,  \* seoul national university: snu.ac.kr
      <<<<110, 97, 110, 121, 97, 110, 103, 32, 116, 101, 99, 104, 110, 111, 108, 111, 103, 105, 99, 97, 108, 32, 117, 110, 105, 118, 101, 114, 115, 105, 116, 121>>,
        <<110, 116, 117, 46, 101, 100, 117, 46, 115, 103>>>>,  \* nanyang technological university: ntu.edu.sg
      <<<<105, 110, 100, 105, 97, 110, 32, 105, 110, 115, 116, 105, 116, 117, 116, 101, 32, 111, 102, 32, 116, 101, 99, 104, 110, 111, 108, 111, 103, 121>>,
        <<105, 105, 116, 98, 46, 97, 99, 46, 105, 110>>>>,  \* indian institute of technology: iitb.ac.in
      <<<<105, 105, 116, 32, 98, 111, 109, 98, 97, 121>>,
        <<105, 105, 116, 98, 46, 97, 99, 46, 105, 110>>>>,  \* iit bombay: iitb.ac.in
      <<<<105, 105, 116, 32, 100, 101, 108, 104, 105>>,
        <<105, 105, 116, 100, 46, 97, 99, 46, 105, 110>>>>,  \* iit delhi: iitd.ac.in
      <<<<99, 104, 105, 110, 101, 115, 101, 32, 97, 99, 97, 100, 101, 109, 121, 32, 111, 102, 32, 115, 99, 105, 101, 110, 99, 101, 115>>,
        <<99, 97, 115, 46, 99, 110>>>>,  \* chinese academy of sciences: cas.cn
      <<<<117, 110, 105, 116, 101, 100, 32, 115, 116, 97, 116, 101, 115, 32, 103, 101, 111, 108, 111, 103, 105, 99, 97, 108, 32, 115, 117, 114, 118, 101, 121>>,
        <<117, 115, 103, 115, 46, 103, 111, 118>>>>  \* united states geological survey: usgs.gov
    >>

L_the == <<116, 104, 101>>  \* the
L_university == <<117, 110, 105, 118, 101, 114, 115, 105, 116, 121>>  \* university
L_of == <<111, 102>>  \* of
L_institute == <<105, 110, 115, 116, 105, 116, 117, 116, 101>>  \* institute
L_technology == <<116, 101, 99, 104, 110, 111, 108, 111, 103, 121>>  \* technology
L_research == <<114, 101, 115, 101, 97, 114, 99, 104>>  \* research
L_college == <<99, 111, 108, 108, 101, 103, 101>>  \* college
L_universidad == <<117, 110, 105, 118, 101, 114, 115, 105, 100, 97, 100>>  \* universidad
L_universit == <<117, 110, 105, 118, 101, 114, 115, 105, 116>>  \* universit
L_de == <<100, 101>>  \* de
L_edu == <<46, 101, 100, 117>>  \* .edu
L_academic_edu == <<97, 99, 97, 100, 101, 109, 105, 99, 46, 101, 100, 117>>  \* academic.edu

\* Regular-expression pieces, matched from position p (1-based) of s; each
\* returns the position after the match, or 0 when there is none.
MatchLit(s, p, lit) ==
    IF p > 0 /\ p + Len(lit) - 1 <= Len(s) /\ SubSeq(s, p, p + Len(lit) - 1) = lit
    THEN p + Len(lit) ELSE 0

RECURSIVE SkipWhile(_, _, _)
SkipWhile(cls, s, p) ==
    IF p <= Len(s) /\ (IF cls = 0 THEN IsSpaceCh(s[p]) ELSE IsWordCh(s[p]))
    THEN SkipWhile(cls, s, p + 1) ELSE p

\* \s+
MatchSpaces(s, p) ==
    IF p > 0 /\ p <= Len(s) /\ IsSpaceCh(s[p]) THEN SkipWhile(0, s, p) ELSE 0

\* \w+ (greedy)
MatchWord(s, p) ==
    IF p > 0 /\ p <= Len(s) /\ IsWordCh(s[p]) THEN SkipWhile(1, s, p) ELSE 0

\* lit1 \s+ lit2 ... : the literals separated by \s+
RECURSIVE MatchLits(_, _, _)
MatchLits(s, p, lits) ==
    IF lits = <<>> \/ p = 0 THEN p
    ELSE LET q == MatchLit(s, p, Head(lits))
         IN  IF Len(lits) = 1 THEN q
             ELSE MatchLits(s, MatchSpaces(s, q), Tail(lits))

\* re.match(r'(\w+)\s+' + lits, s): the first word when it matches, else <<>>
WordThen(s, lits) ==
    LET e == MatchWord(s, 1)
    IN  IF e > 0 /\ MatchLits(s, MatchSpaces(s, e), lits) > 0
        THEN SubSeq(s, 1, e - 1) ELSE <<>>

\* re.match(r'(?:the\s+)?university\s+of\s+(\w[\w\s]*)', s), then
\* m.group(1).strip().split()[0]: the word after "university of"
UniversityOf(s) ==
    LET t  == MatchSpaces(s, MatchLit(s, 1, L_the))
        p0 == IF t > 0 /\ MatchLit(s, t, L_university) > 0 THEN t ELSE 1
        g  == MatchSpaces(s, MatchLits(s, p0, <<L_university, L_of>>))
        e  == MatchWord(s, g)
    IN  IF e > 0 THEN SubSeq(s, g, e - 1) ELSE <<>>

\* re.match(r'(?:universit[éeà]|universidad)\s+(?:de\s+)?(\w+)', s)
UniversiteDe(s) ==
    LET u  == MatchLit(s, 1, L_universit)
        a  == IF u > 0 /\ u <= Len(s) /\ s[u] \in {233, 101, 224} THEN u + 1
              ELSE MatchLit(s, 1, L_universidad)
        b  == MatchSpaces(s, a)
        d  == MatchSpaces(s, MatchLit(s, b, L_de))
        e1 == MatchWord(s, d)
        e0 == MatchWord(s, b)
    IN  IF e1 > 0 THEN SubSeq(s, d, e1 - 1)
        ELSE IF e0 > 0 THEN SubSeq(s, b, e0 - 1)
        ELSE <<>>

\* The first entry of the table, from entry k on, whose key is inside the
\* name or contains it; the table is walked eight entries at a time
RECURSIVE CuratedDomain(_, _)
CuratedDomain(inst_lower, k) ==
    LET last == Min2(k + 7, Len(INSTITUTION_DOMAINS))
        hits == {j \in k..last :
                    \/ IsSubstr(INSTITUTION_DOMAINS[j][1], inst_lower)
                    \/ IsSubstr(inst_lower, INSTITUTION_DOMAINS[j][1])}
    IN  IF hits # {}
        THEN INSTITUTION_DOMAINS[CHOOSE j \in hits : \A h \in hits : j <= h][2]
        ELSE IF last >= Len(INSTITUTION_DOMAINS) THEN <<>>
        ELSE CuratedDomain(inst_lower, last + 1)

SkipWords ==
    { L_the,
      <<110, 97, 116, 105, 111, 110, 97, 108>>,  \* national
      <<114, 111, 121, 97, 108>>,  \* royal
      <<102, 101, 100, 101, 114, 97, 108>>,  \* federal
      <<115, 116, 97, 116, 101>>,  \* state
      <<99, 101, 110, 116, 114, 97, 108>>,  \* central
      <<105, 110, 116, 101, 114, 110, 97, 116, 105, 111, 110, 97, 108>> }  \* international

\* The heuristics of _get_institution_domain that follow the table lookup
HeuristicDomain(inst_lower) ==
    LET words == SelectSeq(Split(inst_lower), LAMBDA w : w \notin SkipWords /\ Len(w) > 2)
        slug  == IF words = <<>> THEN <<>>
                 ELSE SelectSeq(words[1], LAMBDA c : c # 44 /\ c # 46)
    IN  IF UniversityOf(inst_lower) # <<>> THEN UniversityOf(inst_lower) \o L_edu
        ELSE IF WordThen(inst_lower, <<L_university>>) # <<>>
             THEN WordThen(inst_lower, <<L_university>>) \o L_edu
        ELSE IF WordThen(inst_lower, <<L_institute, L_of, L_technology>>) # <<>>
             THEN WordThen(inst_lower, <<L_institute, L_of, L_technology>>) \o L_edu
        ELSE IF WordThen(inst_lower, <<L_research, L_institute>>) # <<>>
             THEN WordThen(inst_lower, <<L_research, L_institute>>) \o L_edu
        ELSE IF WordThen(inst_lower, <<L_institute>>) # <<>>
             THEN WordThen(inst_lower, <<L_institute>>) \o L_edu
        ELSE IF WordThen(inst_lower, <<L_college>>) # <<>>
             THEN WordThen(inst_lower, <<L_college>>) \o L_edu
        ELSE IF UniversiteDe(inst_lower) # <<>> THEN UniversiteDe(inst_lower) \o L_edu
        ELSE IF Len(slug) > 2 THEN slug \o L_edu
        ELSE <<>>

\* A plausible slip: the patterns are tried before the table
GetInstitutionDomainPatternsFirst(institution) ==
    IF institution = <<>> THEN <<>>
    ELSE LET inst_lower == Strip(Lower(institution))
         IN  IF HeuristicDomain(inst_lower) # <<>> THEN HeuristicDomain(inst_lower)
             ELSE CuratedDomain(inst_lower, 1)

\* _get_institution_domain(institution); <<>> stands for None
GetInstitutionDomain(institution) ==
    IF institution = <<>> THEN <<>>
    ELSE LET inst_lower == Strip(Lower(institution))
         IN  IF CuratedDomain(inst_lower, 1) # <<>> THEN CuratedDomain(inst_lower, 1)
             ELSE HeuristicDomain(inst_lower)

\* re.sub(r'[^a-zA-Z\s\-]', '', name).strip().split()
NameParts(name) ==
    Split(Strip(SelectSeq(name, LAMBDA c : IsLowerCh(c) \/ IsUpperCh(c)
                                           \/ IsSpaceCh(c) \/ c = 45)))

\* f"{first}.{last}@{domain}"
MakeEmail(parts, domain) ==
    Lower(parts[1]) \o <<46>> \o Lower(parts[Len(parts)]) \o <<64>> \o domain

\* _infer_email(name, institution); <<>> stands for None
InferEmail(name, institution) ==
    IF name = <<>> \/ institution = <<>> THEN <<>>
    ELSE IF Len(NameParts(name)) < 2 THEN <<>>
    ELSE IF GetInstitutionDomain(institution) = <<>> THEN <<>>
    ELSE MakeEmail(NameParts(name), GetInstitutionDomain(institution))

AbbrSkip ==
    { L_the, L_of, L_de,
      <<97, 110, 100>>,  \* and
      <<102, 111, 114>>,  \* for
      <<105, 110>>,  \* in
      <<97, 116>>,  \* at
      <<100, 117>>,  \* du
      <<100, 101, 115>>,  \* des
      <<108, 97>>,  \* la
      <<108, 101>> }  \* le

\* A plausible slip: no address is made up when the institution is unknown
FallbackEmailNeedsInstitution(name, institution) ==
    IF name = <<>> \/ institution = <<>> THEN <<>>
    ELSE IF Len(NameParts(name)) < 2 THEN <<>>
    ELSE MakeEmail(NameParts(name), L_academic_edu)

\* _fallback_email(name, institution); <<>> stands for None
FallbackEmail(name, institution) ==
    IF name = <<>> THEN <<>>
    ELSE IF Len(NameParts(name)) < 2 THEN <<>>
    ELSE LET words == SelectSeq(Split(institution),
                                LAMBDA w : Lower(w) \notin AbbrSkip /\ Len(w) > 1)
             n     == IF Len(words) <= 3 THEN Len(words) ELSE 4
             abbr  == [k \in 1..n |-> Lower(<<words[k][1]>>)[1]]
         IN  IF institution # <<>> /\ words # <<>>
             THEN MakeEmail(NameParts(name), abbr \o L_edu)
             ELSE MakeEmail(NameParts(name), L_academic_edu)

\* sum(ord(c) for c in name)
NameHash(name) == SumSeq(name)


\* The external record stores, by author identifier or registry identifier.
\* data/authors.json: the record of an author of the corpus
S_EmailJane == <<106, 97, 110, 101, 46, 100, 111, 101, 64, 111, 120, 46, 97, 99, 46, 117, 107>>  \* jane.doe@ox.ac.uk
S_EmailReg == <<109, 101, 109, 98, 101, 114, 64, 111, 114, 99, 105, 100, 46, 101, 120, 97, 109, 112, 108, 101>>  \* member@orcid.example
S_EmailDb == <<115, 116, 97, 102, 102, 64, 99, 111, 114, 112, 117, 115, 46, 101, 120, 97, 109, 112, 108, 101>>  \* staff@corpus.example

\* (pipeline/ingest_openalex.py writes orcid, orcid_url and institution into a
\* record's contact; an e-mail is there only when the file was given one)
StoredAuthor(i) ==
    [id |-> i,
     contact |-> [EmptyContact EXCEPT
                    !.email = IF i = 1 THEN S_EmailJane
                              ELSE IF i > 4 /\ i % 5 = 0 THEN S_EmailDb ELSE None,
                    !.orcid = IF AuthorMeta(i).orcid # 0 THEN <<AuthorMeta(i).orcid>> ELSE None,
                    !.orcid_url = IF AuthorMeta(i).orcid # 0
                                  THEN <<"https://orcid.org/", AuthorMeta(i).orcid>> ELSE None,
                    !.institution = IF AuthorMeta(i).institution # <<>>
                                    THEN AuthorMeta(i).institution ELSE None],
     co_author_ids |-> IF i % 2 = 1 THEN <<i + 1>> ELSE <<>>,
     affiliations |-> IF AuthorMeta(i).institution # <<>>
                      THEN <<[institution |-> AuthorMeta(i).institution]>> ELSE <<>>]

\* The metadata API's answer for an author: the fields _fetch_openalex_contact
\* builds from it
OpenAlexContact(author_id) ==
    [EmptyContact EXCEPT
       !.institution_page = IF author_id % 2 = 0 THEN <<"https://ror.org/", author_id>> ELSE None,
       !.orcid = IF author_id % 4 = 0 THEN <<author_id>> ELSE None,
       !.orcid_url = IF author_id % 4 = 0 THEN <<"https://orcid.org/", author_id>> ELSE None]

\* The identifier registry's answer for a registry identifier: the fields
\* _fetch_orcid_contact builds from it
OrcidContact(orcid_id) ==
    [EmptyContact EXCEPT
       !.email = IF orcid_id % 8 \in {3, 4} THEN S_EmailReg ELSE None,
       !.homepage = IF orcid_id % 3 = 0 THEN <<"https://home.example/", orcid_id>> ELSE None]

\* contact.update({k: v for k, v in other.items() if v}), and with
\* keep_existing the variant "if v and k not in contact"
ContactUpdate(contact, other, keep_existing) ==
    [k \in ContactKeys |->
        IF other[k] # None /\ ~(k = "email_is_inferred" /\ other[k] = <<FALSE>>)
           /\ ~(keep_existing /\ contact[k] # None)
        THEN other[k] ELSE contact[k]]

\* enrich_contact(candidate).  db is the lookup dict of _load_authors_db (the
\* set of identifiers it holds), openalex_up and orcid_up tell whether the
\* request of _fetch_openalex_contact / _fetch_orcid_contact succeeds (a
\* failed one yields {}).
Step1Contact(candidate, db) ==
    IF candidate.author_id \in db
    THEN ContactUpdate(EmptyContact, StoredAuthor(candidate.author_id).contact, FALSE)
    ELSE EmptyContact

\* A plausible slip: the metadata API is asked whether or not the local
\* record gave an e-mail
QueriesOpenAlexAlways(candidate, db) == candidate.author_id # 0

\* if author_id and "email" not in contact
QueriesOpenAlex(candidate, db) ==
    candidate.author_id # 0 /\ Step1Contact(candidate, db).email = None

Step2Contact(candidate, db, openalex_up) ==
    IF QueriesOpenAlex(candidate, db) /\ openalex_up
    THEN ContactUpdate(Step1Contact(candidate, db), OpenAlexContact(candidate.author_id), TRUE)
    ELSE Step1Contact(candidate, db)

OrcidIdOf(candidate, db, openalex_up) ==
    IF Step2Contact(candidate, db, openalex_up).orcid # None
    THEN Step2Contact(candidate, db, openalex_up).orcid[1]
    ELSE candidate.orcid

QueriesOrcid(candidate, db, openalex_up) ==
    /\ OrcidIdOf(candidate, db, openalex_up) # 0
    /\ Step2Contact(candidate, db, openalex_up).email = None

Step3Contact(candidate, db, openalex_up, orcid_up) ==
    IF QueriesOrcid(candidate, db, openalex_up) /\ orcid_up
    THEN ContactUpdate(Step2Contact(candidate, db, openalex_up),
                       OrcidContact(OrcidIdOf(candidate, db, openalex_up)), FALSE)
    ELSE Step2Contact(candidate, db, openalex_up)

\* A plausible slip: the profile link is attached only next to an e-mail
Step4ContactWhenEmail(candidate, db, openalex_up, orcid_up) ==
    IF candidate.author_id # 0 /\ Step3Contact(candidate, db, openalex_up, orcid_up).email # None
    THEN [Step3Contact(candidate, db, openalex_up, orcid_up) EXCEPT
            !.openalex_url = <<"https://openalex.org/", candidate.author_id>>]
    ELSE Step3Contact(candidate, db, openalex_up, orcid_up)

Step4Contact(candidate, db, openalex_up, orcid_up) ==
    IF candidate.author_id # 0
    THEN [Step3Contact(candidate, db, openalex_up, orcid_up) EXCEPT
            !.openalex_url = <<"https://openalex.org/", candidate.author_id>>]
    ELSE Step3Contact(candidate, db, openalex_up, orcid_up)

\* A plausible slip: step 5 runs whether or not an e-mail was found
NeedsInferenceAlways(contact) == TRUE

\* "email" not in contact or not contact["email"]
NeedsInference(contact) == contact.email = None

\* A plausible slip: (name_hash % 5) <= 2
InferredTagUpToTwo(name) == (NameHash(name) % 5) <= 2

\* (name_hash % 5) < 2
InferredTag(name) == (NameHash(name) % 5) < 2

Step5Contact(candidate, contact) ==
    IF NeedsInference(contact)
    THEN IF InferEmail(candidate.name, candidate.institution) # <<>>
         THEN [contact EXCEPT !.email = InferEmail(candidate.name, candidate.institution),
                              !.email_is_inferred = <<InferredTag(candidate.name)>>]
         ELSE IF FallbackEmail(candidate.name, candidate.institution) # <<>>
         THEN [contact EXCEPT !.email = FallbackEmail(candidate.name, candidate.institution),
                              !.email_is_inferred = <<InferredTag(candidate.name)>>]
         ELSE contact
    ELSE contact

\* The step of the cascade the final e-mail came from (history, not a field
\* of the program's dict)
EmailSource(candidate, db, openalex_up, orcid_up) ==
    LET c1 == Step1Contact(candidate, db)
        c3 == Step3Contact(candidate, db, openalex_up, orcid_up)
        c5 == Step5Contact(candidate, Step4Contact(candidate, db, openalex_up, orcid_up))
    IN  IF c1.email # None THEN "local_record"
        ELSE IF c3.email # None THEN "registry"
        ELSE IF c5.email = None THEN "none"
        ELSE IF InferEmail(candidate.name, candidate.institution) # <<>> THEN "inference"
        ELSE "fabrication"

EnrichContact(candidate, db, openalex_up, orcid_up) ==
    [candidate EXCEPT
       !.contact = Step5Contact(candidate, Step4Contact(candidate, db, openalex_up, orcid_up)),
       !.co_author_ids = IF candidate.author_id \in db
                         THEN StoredAuthor(candidate.author_id).co_author_ids
                         ELSE candidate.co_author_ids,
       !.affiliations = IF candidate.author_id \in db
                        THEN StoredAuthor(candidate.author_id).affiliations
                        ELSE candidate.affiliations]

\* enrich_candidates(candidates)
EnrichCandidates(cands, db, openalex_up, orcid_up) ==
    [k \in 1..Len(cands) |-> EnrichContact(cands[k], db, openalex_up, orcid_up)]

(***************************************************************************)
(* Conflicts of interest: services/coi_service.py                          *)
(***************************************************************************)
\* candidate_institutions: the affiliations and the institution, lower-cased
\* and stripped, the empty ones left out
CandidateInstitutions(candidate) ==
    ({Strip(Lower(candidate.affiliations[k].institution)) : k \in DOMAIN candidate.affiliations}
        \cup {Strip(Lower(candidate.institution))}) \ {<<>>}

\* A plausible slip: only "the paper's institution inside the candidate's"
InstitutionMatchOneWay(paper_inst_lower, cand_inst) ==
    /\ paper_inst_lower # <<>>
    /\ cand_inst # <<>>
    /\ IsSubstr(paper_inst_lower, cand_inst)

InstitutionMatch(paper_inst_lower, cand_inst) ==
    /\ paper_inst_lower # <<>>
    /\ cand_inst # <<>>
    /\ (IsSubstr(paper_inst_lower, cand_inst) \/ IsSubstr(cand_inst, paper_inst_lower))

\* A plausible slip: the loop stops at the first co-author found
CoAuthorFlagsFirstOnly(candidate, paper_author_ids) ==
    LET hits == SelectSeq(paper_author_ids, LAMBDA aid : aid \in Range(candidate.co_author_ids))
    IN  [k \in 1..Min2(1, Len(hits)) |->
            [type |-> "co_author", severity |-> "high", detail |-> hits[k]]]

\* A plausible slip: the loop runs over the candidate's co-authors
CoAuthorFlagsOfAnyCoAuthor(candidate, paper_author_ids) ==
    [k \in 1..Len(candidate.co_author_ids) |->
        [type |-> "co_author", severity |-> "high", detail |-> candidate.co_author_ids[k]]]

\* The flags of check 1; paper_author_ids = <<>> also stands for None
CoAuthorFlags(candidate, paper_author_ids) ==
    LET hits == SelectSeq(paper_author_ids, LAMBDA aid : aid \in Range(candidate.co_author_ids))
    IN  [k \in 1..Len(hits) |-> [type |-> "co_author", severity |-> "high", detail |-> hits[k]]]

\* The flags of check 2: one per paper institution that matches; detail
\* holds the candidate institutions the flag can name (the loop runs over a
\* set and stops at the first match)
InstitutionFlags(candidate, paper_author_institutions) ==
    LET insts == CandidateInstitutions(candidate)
        hits  == SelectSeq(paper_author_institutions,
                           LAMBDA pi : \E ci \in insts : InstitutionMatch(Strip(Lower(pi)), ci))
    IN  [k \in 1..Len(hits) |->
            [type |-> "same_institution", severity |-> "medium",
             detail |-> {ci \in insts : InstitutionMatch(Strip(Lower(hits[k])), ci)}]]

LastToken(s) == Split(s)[Len(Split(s))]

\* A plausible slip: the author name is compared without lower-casing it
NameFlagCaseSensitive(candidate_name, author_name) ==
    LET author_lower == Strip(author_name)
    IN  IF author_lower # <<>> /\ candidate_name # <<>>
        THEN IF author_lower = candidate_name
             THEN <<[type |-> "same_person", severity |-> "critical", detail |-> author_name]>>
             ELSE IF LastToken(author_lower) = LastToken(candidate_name)
                     /\ Len(LastToken(candidate_name)) > 2
             THEN <<[type |-> "possible_relation", severity |-> "low", detail |-> author_name]>>
             ELSE <<>>
        ELSE <<>>

\* The flag of check 3 for one author name, <<>> when there is none
NameFlag(candidate_name, author_name) ==
    LET author_lower == Strip(Lower(author_name))
    IN  IF author_lower # <<>> /\ candidate_name # <<>>
        THEN IF author_lower = candidate_name
             THEN <<[type |-> "same_person", severity |-> "critical", detail |-> author_name]>>
             ELSE IF LastToken(author_lower) = LastToken(candidate_name)
                     /\ Len(LastToken(candidate_name)) > 2
             THEN <<[type |-> "possible_relation", severity |-> "low", detail |-> author_name]>>
             ELSE <<>>
        ELSE <<>>

RECURSIVE NameFlags(_, _)
NameFlags(candidate_name, paper_author_names) ==
    IF paper_author_names = <<>> THEN <<>>
    ELSE NameFlag(candidate_name, Head(paper_author_names))
         \o NameFlags(candidate_name, Tail(paper_author_names))

\* detect_conflicts(candidate, paper_author_names, paper_author_institutions,
\*                  paper_author_ids)
DetectConflicts(candidate, paper_author_names, paper_author_institutions, paper_author_ids) ==
    CoAuthorFlags(candidate, paper_author_ids)
    \o InstitutionFlags(candidate, paper_author_institutions)
    \o NameFlags(Strip(Lower(candidate.name)), paper_author_names)

\* A plausible slip: a candidate who is one of the paper's authors is dropped
CheckAllCandidatesDropCritical(cands, paper_author_names, paper_author_institutions, paper_author_ids) ==
    SelectSeq([k \in 1..Len(cands) |->
                  [cands[k] EXCEPT !.coi_flags =
                      DetectConflicts(cands[k], paper_author_names,
                                      paper_author_institutions, paper_author_ids)]],
              LAMBDA c : \A j \in DOMAIN c.coi_flags : c.coi_flags[j].type # "same_person")

\* check_all_candidates(candidates, ...)
CheckAllCandidates(cands, paper_author_names, paper_author_institutions, paper_author_ids) ==
    [k \in 1..Len(cands) |->
        [cands[k] EXCEPT !.coi_flags =
            DetectConflicts(cands[k], paper_author_names, paper_author_institutions,
                            paper_author_ids)]]

(***************************************************************************)
(* The pipeline: app.py (the Find Reviewers button) and find_reviewers     *)
(***************************************************************************)
S_Title1 == <<83, 101, 105, 115, 109, 105, 99, 32, 105, 110, 118, 101, 114, 115, 105, 111, 110, 32, 119, 105, 116, 104, 32, 100, 101, 101, 112, 32, 108, 101, 97, 114, 110, 105, 110, 103>>  \* Seismic inversion with deep learning
S_Abstract1 == <<87, 101, 32, 112, 114, 111, 112, 111, 115, 101, 32, 115, 101, 105, 115, 109, 105, 99, 32, 105, 109, 97, 103, 105, 110, 103, 32, 109, 101, 116, 104, 111, 100, 115>>  \* We propose seismic imaging methods
S_Keyword1 == <<115, 101, 105, 115, 109, 105, 99, 32, 105, 110, 118, 101, 114, 115, 105, 111, 110>>  \* seismic inversion
S_Title2 == <<80, 114, 111, 116, 101, 105, 110, 32, 102, 111, 108, 100, 105, 110, 103, 32, 100, 121, 110, 97, 109, 105, 99, 115>>  \* Protein folding dynamics
S_Abstract2 == <<65, 32, 115, 116, 117, 100, 121, 32, 111, 102, 32, 112, 114, 111, 116, 101, 105, 110, 32, 115, 116, 114, 117, 99, 116, 117, 114, 101>>  \* A study of protein structure
S_BoWei == <<66, 111, 32, 87, 101, 105>>  \* Bo Wei
S_OxfordShort == <<111, 120, 102, 111, 114, 100>>  \* oxford

(***************************************************************************)
(* Topic extraction: llm_service.extract_topics and the profile            *)
(* find_reviewers builds itself when that call raises.  A profile is the   *)
(* value bound to the variable topics; the field type is the Python type   *)
(* of that value, the other fields are the keys of the dict.               *)
(***************************************************************************)

\* _DOMAIN_PATTERNS in insertion order, each entry <<name, patterns>>
DOMAIN_PATTERNS ==
    <<
      <<<<109, 97, 99, 104, 105, 110, 101, 32, 108, 101, 97, 114, 110, 105, 110, 103>>,  \* machine learning
        <<<<109, 97, 99, 104, 105, 110, 101, 32, 108, 101, 97, 114, 110, 105, 110, 103>>,
          <<100, 101, 101, 112, 32, 108, 101, 97, 114, 110, 105, 110, 103>>,
          <<110, 101, 117, 114, 97, 108, 32, 110, 101, 116, 119, 111, 114, 107>>,
          <<115, 117, 112, 101, 114, 118, 105, 115, 101, 100>>,
          <<117, 110, 115, 117, 112, 101, 114, 118, 105, 115, 101, 100>>,
          <<114, 101, 105, 110, 102, 111, 114, 99, 101, 109, 101, 110, 116, 32, 108, 101, 97, 114, 110, 105, 110, 103>>,
          <<99, 108, 97, 115, 115, 105, 102, 105, 99, 97, 116, 105, 111, 110>>,
          <<114, 101, 103, 114, 101, 115, 115, 105, 111, 110>>>>>>,  \* machine learning, deep learning, neural network, supervised, unsupervised, reinforcement learning, classification, regression
      <<<<110, 97, 116, 117, 114, 97, 108, 32, 108, 97, 110, 103, 117, 97, 103, 101, 32, 112, 114, 111, 99, 101, 115, 115, 105, 110, 103>>,  \* natural language processing
        <<<<110, 97, 116, 117, 114, 97, 108, 32, 108, 97, 110, 103, 117, 97, 103, 101>>,
          <<110, 108, 112>>,
          <<116, 101, 120, 116, 32, 109, 105, 110, 105, 110, 103>>,
          <<108, 97, 110, 103, 117, 97, 103, 101, 32, 109, 111, 100, 101, 108>>,
          <<115, 101, 110, 116, 105, 109, 101, 110, 116>>,
          <<110, 97, 109, 101, 100, 32, 101, 110, 116, 105, 116, 121>>,
          <<112, 97, 114, 115, 105, 110, 103>>,
          <<116, 114, 97, 110, 115, 108, 97, 116, 105, 111, 110>>,
          <<116, 111, 107, 101, 110, 105, 122>>>>>>,  \* natural language, nlp, text mining, language model, sentiment, named entity, parsing, translation, tokeniz
      <<<<99, 111, 109, 112, 117, 116, 101, 114, 32, 118, 105, 115, 105, 111, 110>>,  \* computer vision
        <<<<99, 111, 109, 112, 117, 116, 101, 114, 32, 118, 105, 115, 105, 111, 110>>,
          <<105, 109, 97, 103, 101, 32, 114, 101, 99, 111, 103, 110, 105, 116, 105, 111, 110>>,
          <<111, 98, 106, 101, 99, 116, 32, 100, 101, 116, 101, 99, 116, 105, 111, 110>>,
          <<115, 101, 103, 109, 101, 110, 116, 97, 116, 105, 111, 110>>,
          <<99, 111, 110, 118, 111, 108, 117, 116, 105, 111, 110, 97, 108>>,
          <<118, 105, 115, 117, 97, 108>>,
          <<105, 109, 97, 103, 101, 32, 99, 108, 97, 115, 115, 105, 102, 105, 99, 97, 116, 105, 111, 110>>>>>>,  \* computer vision, image recognition, object detection, segmentation, convolutional, visual, image classification
      <<<<103, 101, 110, 111, 109, 105, 99, 115>>,  \* genomics
        <<<<103, 101, 110, 111, 109, 101>>,
          <<103, 101, 110, 111, 109, 105, 99>>,
          <<100, 110, 97>>,
          <<114, 110, 97>>,
          <<115, 101, 113, 117, 101, 110, 99, 105, 110, 103>>,
          <<103, 101, 110, 101, 32, 101, 120, 112, 114, 101, 115, 115, 105, 111, 110>>,
          <<116, 114, 97, 110, 115, 99, 114, 105, 112, 116, 111, 109>>,
          <<101, 112, 105, 103, 101, 110, 111, 109>>>>>>,  \* genome, genomic, dna, rna, sequencing, gene expression, transcriptom, epigenom
      <<<<110, 101, 117, 114, 111, 115, 99, 105, 101, 110, 99, 101>>,  \* neuroscience
        <<<<110, 101, 117, 114, 111, 115, 99, 105, 101, 110, 99, 101>>,
          <<110, 101, 117, 114, 97, 108>>,
          <<98, 114, 97, 105, 110>>,
          <<99, 111, 103, 110, 105, 116, 105, 118, 101>>,
          <<102, 109, 114, 105>>,
          <<101, 101, 103>>,
          <<110, 101, 117, 114, 111, 105, 109, 97, 103, 105, 110, 103>>,
          <<115, 121, 110, 97, 112, 116, 105, 99>>>>>>,  \* neuroscience, neural, brain, cognitive, fmri, eeg, neuroimaging, synaptic
      <<<<99, 108, 105, 109, 97, 116, 101, 32, 115, 99, 105, 101, 110, 99, 101>>,  \* climate science
        <<<<99, 108, 105, 109, 97, 116, 101>>,
          <<103, 108, 111, 98, 97, 108, 32, 119, 97, 114, 109, 105, 110, 103>>,
          <<103, 114, 101, 101, 110, 104, 111, 117, 115, 101>>,
          <<99, 97, 114, 98, 111, 110>>,
          <<97, 116, 109, 111, 115, 112, 104, 101, 114, 105, 99>>,
          <<116, 101, 109, 112, 101, 114, 97, 116, 117, 114, 101, 32, 97, 110, 111, 109, 97, 108>>>>>>,  \* climate, global warming, greenhouse, carbon, atmospheric, temperature anomal
      <<<<112, 117, 98, 108, 105, 99, 32, 104, 101, 97, 108, 116, 104>>,  \* public health
        <<<<101, 112, 105, 100, 101, 109, 105, 111, 108>>,
          <<112, 117, 98, 108, 105, 99, 32, 104, 101, 97, 108, 116, 104>>,
          <<112, 97, 110, 100, 101, 109, 105, 99>>,
          <<118, 97, 99, 99, 105, 110, 101>>,
          <<109, 111, 114, 116, 97, 108, 105, 116, 121>>,
          <<109, 111, 114, 98, 105, 100, 105, 116, 121>>,
          <<100, 105, 115, 101, 97, 115, 101, 32, 115, 117, 114, 118, 101, 105, 108, 108, 97, 110, 99, 101>>>>>>,  \* epidemiol, public health, pandemic, vaccine, mortality, morbidity, disease surveillance
      <<<<109, 97, 116, 101, 114, 105, 97, 108, 115, 32, 115, 99, 105, 101, 110, 99, 101>>,  \* materials science
        <<<<109, 97, 116, 101, 114, 105, 97, 108, 115, 32, 115, 99, 105, 101, 110, 99, 101>>,
          <<110, 97, 110, 111, 115, 116, 114, 117, 99, 116, 117, 114>>,
          <<112, 111, 108, 121, 109, 101, 114>>,
          <<97, 108, 108, 111, 121>>,
          <<99, 114, 121, 115, 116, 97, 108, 108, 105, 110>>,
          <<116, 104, 105, 110, 32, 102, 105, 108, 109>>>>>>,  \* materials science, nanostructur, polymer, alloy, crystallin, thin film
      <<<<113, 117, 97, 110, 116, 117, 109, 32, 99, 111, 109, 112, 117, 116, 105, 110, 103>>,  \* quantum computing
        <<<<113, 117, 97, 110, 116, 117, 109, 32, 99, 111, 109, 112, 117, 116>>,
          <<113, 117, 98, 105, 116>>,
          <<113, 117, 97, 110, 116, 117, 109, 32, 99, 105, 114, 99, 117, 105, 116>>,
          <<113, 117, 97, 110, 116, 117, 109, 32, 101, 110, 116, 97, 110, 103, 108, 101>>,
          <<115, 117, 112, 101, 114, 112, 111, 115, 105, 116, 105, 111, 110>>>>>>,  \* quantum comput, qubit, quantum circuit, quantum entangle, superposition
      <<<<97, 115, 116, 114, 111, 112, 104, 121, 115, 105, 99, 115>>,  \* astrophysics
        <<<<97, 115, 116, 114, 111, 112, 104, 121, 115, 105, 99>>,
          <<115, 116, 101, 108, 108, 97, 114>>,
          <<103, 97, 108, 97, 120, 121>>,
          <<99, 111, 115, 109, 111, 108, 111, 103>>,
          <<101, 120, 111, 112, 108, 97, 110, 101, 116>>,
          <<100, 97, 114, 107, 32, 109, 97, 116, 116, 101, 114>>,
          <<103, 114, 97, 118, 105, 116, 97, 116, 105, 111, 110, 97, 108>>>>>>,  \* astrophysic, stellar, galaxy, cosmolog, exoplanet, dark matter, gravitational
      <<<<114, 101, 110, 101, 119, 97, 98, 108, 101, 32, 101, 110, 101, 114, 103, 121>>,  \* renewable energy
        <<<<115, 111, 108, 97, 114, 32, 99, 101, 108, 108>>,
          <<119, 105, 110, 100, 32, 101, 110, 101, 114, 103, 121>>,
          <<114, 101, 110, 101, 119, 97, 98, 108, 101>>,
          <<112, 104, 111, 116, 111, 118, 111, 108, 116, 97, 105, 99>>,
          <<101, 110, 101, 114, 103, 121, 32, 115, 116, 111, 114, 97, 103, 101>>,
          <<98, 97, 116, 116, 101, 114, 121>>>>>>,  \* solar cell, wind energy, renewable, photovoltaic, energy storage, battery
      <<<<101, 99, 111, 110, 111, 109, 105, 99, 115>>,  \* economics
        <<<<101, 99, 111, 110, 111, 109, 105, 99>>,
          <<109, 97, 114, 107, 101, 116>>,
          <<105, 110, 102, 108, 97, 116, 105, 111, 110>>,
          <<109, 111, 110, 101, 116, 97, 114, 121>>,
          <<102, 105, 115, 99, 97, 108>>,
          <<98, 101, 104, 97, 118, 105, 111, 114, 97, 108, 32, 101, 99, 111, 110, 111, 109, 105, 99, 115>>>>>>,  \* economic, market, inflation, monetary, fiscal, behavioral economics
      <<<<99, 104, 101, 109, 105, 115, 116, 114, 121>>,  \* chemistry
        <<<<99, 104, 101, 109, 105, 99, 97, 108>>,
          <<109, 111, 108, 101, 99, 117, 108, 97, 114>>,
          <<115, 121, 110, 116, 104, 101, 115, 105, 115>>,
          <<99, 97, 116, 97, 108, 121, 115, 116>>,
          <<111, 114, 103, 97, 110, 105, 99, 32, 99, 104, 101, 109, 105, 115, 116, 114, 121>>,
          <<114, 101, 97, 99, 116, 105, 111, 110, 32, 109, 101, 99, 104, 97, 110, 105, 115, 109>>>>>>,  \* chemical, molecular, synthesis, catalyst, organic chemistry, reaction mechanism
      <<<<114, 111, 98, 111, 116, 105, 99, 115>>,  \* robotics
        <<<<114, 111, 98, 111, 116>>,
          <<97, 117, 116, 111, 110, 111, 109, 111, 117, 115>>,
          <<109, 97, 110, 105, 112, 117, 108, 97, 116, 105, 111, 110>>,
          <<109, 111, 116, 105, 111, 110, 32, 112, 108, 97, 110, 110, 105, 110, 103>>,
          <<115, 119, 97, 114, 109>>,
          <<104, 117, 109, 97, 110, 45, 114, 111, 98, 111, 116>>>>>>,  \* robot, autonomous, manipulation, motion planning, swarm, human-robot
      <<<<99, 121, 98, 101, 114, 115, 101, 99, 117, 114, 105, 116, 121>>,  \* cybersecurity
        <<<<115, 101, 99, 117, 114, 105, 116, 121>>,
          <<99, 114, 121, 112, 116, 111, 103, 114, 97, 112, 104>>,
          <<109, 97, 108, 119, 97, 114, 101>>,
          <<105, 110, 116, 114, 117, 115, 105, 111, 110, 32, 100, 101, 116, 101, 99, 116, 105, 111, 110>>,
          <<118, 117, 108, 110, 101, 114, 97, 98, 105, 108, 105, 116, 121>>,
          <<101, 110, 99, 114, 121, 112, 116, 105, 111, 110>>>>>>,  \* security, cryptograph, malware, intrusion detection, vulnerability, encryption
      <<<<98, 105, 111, 105, 110, 102, 111, 114, 109, 97, 116, 105, 99, 115>>,  \* bioinformatics
        <<<<98, 105, 111, 105, 110, 102, 111, 114, 109, 97, 116, 105, 99>>,
          <<112, 114, 111, 116, 101, 105, 110, 32, 115, 116, 114, 117, 99, 116, 117, 114, 101>>,
          <<115, 101, 113, 117, 101, 110, 99, 101, 32, 97, 108, 105, 103, 110, 109, 101, 110, 116>>,
          <<112, 104, 121, 108, 111, 103, 101, 110, 101, 116>>,
          <<112, 114, 111, 116, 101, 105, 110, 32, 102, 111, 108, 100, 105, 110, 103>>>>>>,  \* bioinformatic, protein structure, sequence alignment, phylogenet, protein folding
      <<<<115, 116, 97, 116, 105, 115, 116, 105, 99, 115>>,  \* statistics
        <<<<115, 116, 97, 116, 105, 115, 116, 105, 99, 97, 108>>,
          <<98, 97, 121, 101, 115, 105, 97, 110>>,
          <<114, 101, 103, 114, 101, 115, 115, 105, 111, 110>>,
          <<104, 121, 112, 111, 116, 104, 101, 115, 105, 115, 32, 116, 101, 115, 116>>,
          <<112, 114, 111, 98, 97, 98, 105, 108, 105, 116, 121>>,
          <<115, 116, 111, 99, 104, 97, 115, 116, 105, 99>>>>>>,  \* statistical, bayesian, regression, hypothesis test, probability, stochastic
      <<<<109, 101, 100, 105, 99, 105, 110, 101>>,  \* medicine
        <<<<99, 108, 105, 110, 105, 99, 97, 108>>,
          <<112, 97, 116, 105, 101, 110, 116>>,
          <<116, 114, 101, 97, 116, 109, 101, 110, 116>>,
          <<100, 105, 97, 103, 110, 111, 115, 105, 115>>,
          <<116, 104, 101, 114, 97, 112, 101, 117, 116, 105, 99>>,
          <<114, 97, 110, 100, 111, 109, 105, 122, 101, 100, 32, 116, 114, 105, 97, 108>>,
          <<112, 108, 97, 99, 101, 98, 111>>>>>>  \* clinical, patient, treatment, diagnosis, therapeutic, randomized trial, placebo
    >>

\* _METHOD_PATTERNS in insertion order, each entry <<name, patterns>>
METHOD_PATTERNS ==
    <<
      <<<<100, 101, 101, 112, 32, 108, 101, 97, 114, 110, 105, 110, 103>>,  \* deep learning
        <<<<100, 101, 101, 112, 32, 108, 101, 97, 114, 110, 105, 110, 103>>,
          <<110, 101, 117, 114, 97, 108, 32, 110, 101, 116, 119, 111, 114, 107>>,
          <<99, 110, 110>>,
          <<114, 110, 110>>,
          <<108, 115, 116, 109>>,
          <<116, 114, 97, 110, 115, 102, 111, 114, 109, 101, 114>>,
          <<97, 116, 116, 101, 110, 116, 105, 111, 110, 32, 109, 101, 99, 104, 97, 110, 105, 115, 109>>,
          <<98, 97, 99, 107, 112, 114, 111, 112, 97, 103, 97, 116, 105, 111, 110>>>>>>,  \* deep learning, neural network, cnn, rnn, lstm, transformer, attention mechanism, backpropagation
      <<<<115, 116, 97, 116, 105, 115, 116, 105, 99, 97, 108, 32, 97, 110, 97, 108, 121, 115, 105, 115>>,  \* statistical analysis
        <<<<115, 116, 97, 116, 105, 115, 116, 105, 99, 97, 108>>,
          <<114, 101, 103, 114, 101, 115, 115, 105, 111, 110>>,
          <<97, 110, 111, 118, 97>>,
          <<99, 104, 105, 45, 115, 113, 117, 97, 114, 101>>,
          <<116, 45, 116, 101, 115, 116>>,
          <<99, 111, 110, 102, 105, 100, 101, 110, 99, 101, 32, 105, 110, 116, 101, 114, 118, 97, 108>>,
          <<112, 45, 118, 97, 108, 117, 101>>>>>>,  \* statistical, regression, anova, chi-square, t-test, confidence interval, p-value
      <<<<114, 97, 110, 100, 111, 109, 105, 122, 101, 100, 32, 99, 111, 110, 116, 114, 111, 108, 108, 101, 100, 32, 116, 114, 105, 97, 108>>,  \* randomized controlled trial
        <<<<114, 97, 110, 100, 111, 109, 105, 122, 101, 100>>,
          <<99, 111, 110, 116, 114, 111, 108, 108, 101, 100, 32, 116, 114, 105, 97, 108>>,
          <<114, 99, 116>>,
          <<112, 108, 97, 99, 101, 98, 111>>,
          <<100, 111, 117, 98, 108, 101, 45, 98, 108, 105, 110, 100>>>>>>,  \* randomized, controlled trial, rct, placebo, double-blind
      <<<<115, 117, 114, 118, 101, 121, 32, 109, 101, 116, 104, 111, 100, 111, 108, 111, 103, 121>>,  \* survey methodology
        <<<<115, 117, 114, 118, 101, 121>>,
          <<113, 117, 101, 115, 116, 105, 111, 110, 110, 97, 105, 114, 101>>,
          <<108, 105, 107, 101, 114, 116>>,
          <<114, 101, 115, 112, 111, 110, 100, 101, 110, 116>>>>>>,  \* survey, questionnaire, likert, respondent
      <<<<115, 105, 109, 117, 108, 97, 116, 105, 111, 110>>,  \* simulation
        <<<<115, 105, 109, 117, 108, 97, 116, 105, 111, 110>>,
          <<109, 111, 110, 116, 101, 32, 99, 97, 114, 108, 111>>,
          <<97, 103, 101, 110, 116, 45, 98, 97, 115, 101, 100>>,
          <<102, 105, 110, 105, 116, 101, 32, 101, 108, 101, 109, 101, 110, 116>>>>>>,  \* simulation, monte carlo, agent-based, finite element
      <<<<113, 117, 97, 108, 105, 116, 97, 116, 105, 118, 101, 32, 97, 110, 97, 108, 121, 115, 105, 115>>,  \* qualitative analysis
        <<<<113, 117, 97, 108, 105, 116, 97, 116, 105, 118, 101>>,
          <<105, 110, 116, 101, 114, 118, 105, 101, 119>>,
          <<116, 104, 101, 109, 97, 116, 105, 99, 32, 97, 110, 97, 108, 121, 115, 105, 115>>,
          <<103, 114, 111, 117, 110, 100, 101, 100, 32, 116, 104, 101, 111, 114, 121>>>>>>,  \* qualitative, interview, thematic analysis, grounded theory
      <<<<109, 101, 116, 97, 45, 97, 110, 97, 108, 121, 115, 105, 115>>,  \* meta-analysis
        <<<<109, 101, 116, 97, 45, 97, 110, 97, 108, 121, 115, 105, 115>>,
          <<115, 121, 115, 116, 101, 109, 97, 116, 105, 99, 32, 114, 101, 118, 105, 101, 119>>,
          <<101, 102, 102, 101, 99, 116, 32, 115, 105, 122, 101>>,
          <<104, 101, 116, 101, 114, 111, 103, 101, 110, 101, 105, 116, 121>>>>>>,  \* meta-analysis, systematic review, effect size, heterogeneity
      <<<<101, 120, 112, 101, 114, 105, 109, 101, 110, 116, 97, 108>>,  \* experimental
        <<<<101, 120, 112, 101, 114, 105, 109, 101, 110, 116>>,
          <<108, 97, 98, 111, 114, 97, 116, 111, 114, 121>>,
          <<99, 111, 110, 116, 114, 111, 108, 108, 101, 100, 32, 101, 120, 112, 101, 114, 105, 109, 101, 110, 116>>,
          <<105, 110, 32, 118, 105, 116, 114, 111>>,
          <<105, 110, 32, 118, 105, 118, 111>>>>>>,  \* experiment, laboratory, controlled experiment, in vitro, in vivo
      <<<<99, 111, 109, 112, 117, 116, 97, 116, 105, 111, 110, 97, 108, 32, 109, 111, 100, 101, 108, 105, 110, 103>>,  \* computational modeling
        <<<<99, 111, 109, 112, 117, 116, 97, 116, 105, 111, 110, 97, 108, 32, 109, 111, 100, 101, 108>>,
          <<110, 117, 109, 101, 114, 105, 99, 97, 108>>,
          <<100, 105, 102, 102, 101, 114, 101, 110, 116, 105, 97, 108, 32, 101, 113, 117, 97, 116, 105, 111, 110>>,
          <<111, 112, 116, 105, 109, 105, 122, 97, 116, 105, 111, 110>>>>>>,  \* computational model, numerical, differential equation, optimization
      <<<<116, 114, 97, 110, 115, 102, 101, 114, 32, 108, 101, 97, 114, 110, 105, 110, 103>>,  \* transfer learning
        <<<<116, 114, 97, 110, 115, 102, 101, 114, 32, 108, 101, 97, 114, 110, 105, 110, 103>>,
          <<102, 105, 110, 101, 45, 116, 117, 110>>,
          <<112, 114, 101, 45, 116, 114, 97, 105, 110>>,
          <<100, 111, 109, 97, 105, 110, 32, 97, 100, 97, 112, 116, 97, 116, 105, 111, 110>>>>>>  \* transfer learning, fine-tun, pre-train, domain adaptation
    >>

\* bridge_map of _detect_bridges in insertion order, each entry <<domain, domain, bridge>>
BRIDGE_MAP ==
    <<
      <<<<109, 97, 99, 104, 105, 110, 101, 32, 108, 101, 97, 114, 110, 105, 110, 103>>, <<109, 101, 100, 105, 99, 105, 110, 101>>,
        <<109, 101, 100, 105, 99, 97, 108, 32, 65, 73>>>>,  \* machine learning + medicine: medical AI
      <<<<109, 97, 99, 104, 105, 110, 101, 32, 108, 101, 97, 114, 110, 105, 110, 103>>, <<103, 101, 110, 111, 109, 105, 99, 115>>,
        <<99, 111, 109, 112, 117, 116, 97, 116, 105, 111, 110, 97, 108, 32, 103, 101, 110, 111, 109, 105, 99, 115>>>>,  \* machine learning + genomics: computational genomics
      <<<<109, 97, 99, 104, 105, 110, 101, 32, 108, 101, 97, 114, 110, 105, 110, 103>>, <<109, 97, 116, 101, 114, 105, 97, 108, 115, 32, 115, 99, 105, 101, 110, 99, 101>>,
        <<109, 97, 116, 101, 114, 105, 97, 108, 115, 32, 105, 110, 102, 111, 114, 109, 97, 116, 105, 99, 115>>>>,  \* machine learning + materials science: materials informatics
      <<<<115, 116, 97, 116, 105, 115, 116, 105, 99, 115>>, <<103, 101, 110, 111, 109, 105, 99, 115>>,
        <<115, 116, 97, 116, 105, 115, 116, 105, 99, 97, 108, 32, 103, 101, 110, 101, 116, 105, 99, 115>>>>,  \* statistics + genomics: statistical genetics
      <<<<110, 101, 117, 114, 111, 115, 99, 105, 101, 110, 99, 101>>, <<109, 97, 99, 104, 105, 110, 101, 32, 108, 101, 97, 114, 110, 105, 110, 103>>,
        <<99, 111, 109, 112, 117, 116, 97, 116, 105, 111, 110, 97, 108, 32, 110, 101, 117, 114, 111, 115, 99, 105, 101, 110, 99, 101>>>>,  \* neuroscience + machine learning: computational neuroscience
      <<<<101, 99, 111, 110, 111, 109, 105, 99, 115>>, <<109, 97, 99, 104, 105, 110, 101, 32, 108, 101, 97, 114, 110, 105, 110, 103>>,
        <<99, 111, 109, 112, 117, 116, 97, 116, 105, 111, 110, 97, 108, 32, 101, 99, 111, 110, 111, 109, 105, 99, 115>>>>,  \* economics + machine learning: computational economics
      <<<<99, 104, 101, 109, 105, 115, 116, 114, 121>>, <<109, 97, 99, 104, 105, 110, 101, 32, 108, 101, 97, 114, 110, 105, 110, 103>>,
        <<99, 104, 101, 109, 105, 110, 102, 111, 114, 109, 97, 116, 105, 99, 115>>>>,  \* chemistry + machine learning: cheminformatics
      <<<<99, 108, 105, 109, 97, 116, 101, 32, 115, 99, 105, 101, 110, 99, 101>>, <<115, 116, 97, 116, 105, 115, 116, 105, 99, 115>>,
        <<99, 108, 105, 109, 97, 116, 101, 32, 109, 111, 100, 101, 108, 105, 110, 103>>>>,  \* climate science + statistics: climate modeling
      <<<<114, 111, 98, 111, 116, 105, 99, 115>>, <<109, 97, 99, 104, 105, 110, 101, 32, 108, 101, 97, 114, 110, 105, 110, 103>>,
        <<105, 110, 116, 101, 108, 108, 105, 103, 101, 110, 116, 32, 114, 111, 98, 111, 116, 105, 99, 115>>>>  \* robotics + machine learning: intelligent robotics
    >>

S_GeneralScience == <<103, 101, 110, 101, 114, 97, 108, 32, 115, 99, 105, 101, 110, 99, 101>>  \* general science
S_EmpiricalStudy == <<101, 109, 112, 105, 114, 105, 99, 97, 108, 32, 115, 116, 117, 100, 121>>  \* empirical study

\* list(dict.fromkeys(seq)): the distinct elements in order of first occurrence
DictKeys(seq) ==
    LET firsts == {i \in DOMAIN seq : \A j \in 1..(i - 1) : seq[j] # seq[i]}
        nth(k) == CHOOSE i \in firsts : Cardinality({j \in firsts : j <= i}) = k
    IN  [k \in 1..Cardinality(firsts) |-> seq[nth(k)]]

\* sorted(keys, key=score, reverse=True) where scores[i] is the score of
\* keys[i]: stable, equal scores keep their order
SortedDesc(keys, scores) ==
    LET before(i, j) == scores[i] > scores[j] \/ (scores[i] = scores[j] /\ i < j)
        pos(i) == 1 + Cardinality({j \in DOMAIN keys : before(j, i)})
    IN  [k \in DOMAIN keys |-> keys[CHOOSE i \in DOMAIN keys : pos(i) = k]]

\* seq[:n]
Take(seq, n) == SubSeq(seq, 1, Min2(n, Len(seq)))

\* _match_domains / _match_methodologies: the names whose patterns occur in
\* the text, most matching patterns first
MatchPatterns(table, text) ==
    LET score(e) == Cardinality({k \in DOMAIN e[2] : IsSubstr(e[2][k], text)})
        hits == SelectSeq(table, LAMBDA e : score(e) > 0)
        ranked == SortedDesc(hits, [k \in DOMAIN hits |-> score(hits[k])])
    IN  [k \in DOMAIN ranked |-> ranked[k][1]]

\* _detect_bridges(domains)
DetectBridges(domains) ==
    LET hits == SelectSeq(BRIDGE_MAP,
                          LAMBDA e : {e[1], e[2]} \subseteq Range(domains))
    IN  Take([k \in DOMAIN hits |-> hits[k][3]], 2)

\* _mock_extract_topics(title, abstract, keywords)
MockExtractTopics(title, abstract, keywords) ==
    LET text == Lower(title \o <<32>> \o abstract)
        word_list == FindWords(text)
        words == SelectSeq(word_list, LAMBDA w : w \notin STOPWORDS)
        word_freq(w) == Cardinality({i \in DOMAIN words : words[i] = w})
        pairs == SelectSeq([k \in 1..(Len(word_list) - 1) |-> k],
                           LAMBDA k : /\ word_list[k] \notin STOPWORDS
                                      /\ word_list[k + 1] \notin STOPWORDS)
        bigrams == [k \in DOMAIN pairs |->
                       word_list[pairs[k]] \o <<32>> \o word_list[pairs[k] + 1]]
        bigram_freq(b) == Cardinality({i \in DOMAIN bigrams : bigrams[i] = b})
        Counts(keys, freq(_)) == [k \in DOMAIN keys |-> freq(keys[k])]
        top_words == Take(SortedDesc(DictKeys(words),
                                     Counts(DictKeys(words), word_freq)), 20)
        top_bigrams == Take(SortedDesc(DictKeys(bigrams),
                                       Counts(DictKeys(bigrams), bigram_freq)), 10)
        domains == MatchPatterns(DOMAIN_PATTERNS, text)
        methodologies == MatchPatterns(METHOD_PATTERNS, text)
        kws == [k \in 1..Min2(5, Len(keywords)) |-> Strip(Lower(keywords[k]))]
        sub_topics == IF keywords # <<>>
                      THEN Take(DictKeys(kws \o Take(top_bigrams, 5)), 5)
                      ELSE Take(top_bigrams, 5)
        last_words == {LastToken(domains[k]) : k \in DOMAIN domains}
        expanded == SelectSeq(Take(top_words, 8), LAMBDA w : w \notin last_words)
    IN  [type |-> "dict",
         primary_domains |-> IF domains # <<>> THEN Take(domains, 4)
                             ELSE <<S_GeneralScience>>,
         methodologies |-> IF methodologies # <<>> THEN Take(methodologies, 3)
                           ELSE <<S_EmpiricalStudy>>,
         sub_topics |-> Take(sub_topics, 5),
         expanded_terms |-> Take(expanded, 8),
         interdisciplinary_bridges |-> DetectBridges(domains)]

\* The dict find_reviewers binds to topics when extract_topics raises
FallbackTopics(keywords) ==
    [type |-> "dict",
     primary_domains |-> IF keywords # <<>> THEN Take(keywords, 3) ELSE <<>>,
     methodologies |-> <<>>,
     sub_topics |-> keywords,
     expanded_terms |-> <<>>,
     interdisciplinary_bridges |-> <<>>]

\* json.loads(text) of _live_extract_topics, returned as it is: an object
\* as the prompt asks for, an object with longer lists than asked for, and
\* valid JSON that is not an object.  The last two are answered over the
\* empty corpus only, the first over every corpus of n authors.
LiveTopicAnswers(n) ==
    { [type |-> "dict",
       primary_domains |-> <<S_Geophysics, S_DeepLearning>>,
       methodologies |-> <<S_DeepLearning>>,
       sub_topics |-> <<S_SeismicTopic, S_Geophysics, S_DeepLearning>>,
       expanded_terms |-> <<S_Geophysics, S_DeepLearning, S_SeismicTopic,
                            S_ProteinFolding, S_Keyword1>>,
       interdisciplinary_bridges |-> <<>>] }
    \cup
    IF n # 0 THEN {}
    ELSE { [type |-> "dict",
            primary_domains |-> <<S_Geophysics, S_DeepLearning, S_SeismicTopic,
                                  S_ProteinFolding, S_Keyword1>>,
            methodologies |-> <<S_DeepLearning>>,
            sub_topics |-> <<S_SeismicTopic, S_Geophysics, S_DeepLearning>>,
            expanded_terms |-> <<S_Geophysics>>,
            interdisciplinary_bridges |-> <<S_Geophysics, S_DeepLearning,
                                            S_SeismicTopic>>],
           [type |-> "list",
            primary_domains |-> <<>>, methodologies |-> <<>>, sub_topics |-> <<>>,
            expanded_terms |-> <<>>, interdisciplinary_bridges |-> <<>>] }

\* topics before step 1 has bound it
NoTopics ==
    [type |-> "unbound",
     primary_domains |-> <<>>, methodologies |-> <<>>, sub_topics |-> <<>>,
     expanded_terms |-> <<>>, interdisciplinary_bridges |-> <<>>]


\* The manuscripts submitted; query_vector is what the embedding model
\* returns for the manuscript (L2-normalised)
Queries ==
    { [title |-> S_Title1, abstract |-> S_Abstract1,
       keywords |-> <<S_Keyword1, S_DeepLearning>>,
       author_names |-> <<S_JaneDoe, S_BoWei>>, author_institutions |-> <<S_OxfordShort>>,
       query_vector |-> <<2, 3, 6>>],
      [title |-> S_Title2, abstract |-> S_Abstract2, keywords |-> <<>>,
       author_names |-> <<>>, author_institutions |-> <<>>,
       query_vector |-> <<-2, -3, -6>>],
      [title |-> <<>>, abstract |-> S_Abstract1,
       keywords |-> <<S_Keyword1, S_DeepLearning, S_Geophysics, S_SeismicTopic,
                      S_ProteinFolding, S_GeneralScience>>,
       author_names |-> <<>>, author_institutions |-> <<>>,
       query_vector |-> <<2, 3, 6>>],
      [title |-> S_Title2, abstract |-> <<>>, keywords |-> <<>>,
       author_names |-> <<S_JaneDoe>>, author_institutions |-> <<>>,
       query_vector |-> <<-2, -3, -6>>] }

SmallCorpus == 5
SmallRequest == 5
SmallPool == 6
LargeRequest == 33

\* (query, num_reviewers, num_vector_candidates): the large request is made
\* of the whole corpus with the first query, the small ones of the small and
\* the empty corpus with every query
Requests(n) ==
    IF n = MaxCorpus
    THEN { <<qy, LargeRequest, LargeRequest + 1>> : qy \in {q \in Queries : q.keywords # <<>>} }
    ELSE { <<qy, rq[1], rq[2]>> :
             qy \in Queries, rq \in { <<2, 3>>, <<2, 1>>, <<SmallRequest, SmallPool>> } }

CorpusSizes == {0, SmallCorpus, MaxCorpus}

VARIABLES
    USE_MOCK,       \* llm_service.USE_MOCK, fixed when the module is imported
    corpus_n,       \* the number of authors the index (local and remote) holds
    pc,             \* the position of the request
    entry,          \* "button" (app.py) or "direct" (a call of find_reviewers)
    query,          \* title, abstract, keywords, author_names, author_institutions
    num_reviewers,
    num_vector_candidates,
    topics,
    query_vector,
    use_qdrant,
    candidates,
    scored,
    reviewers,
    steps,
    calls,          \* history: the services and stages invoked, in order, as
                    \* <<name, argument>>
    scoring_path,   \* history: "mock", "live" or "fallback"
    env,            \* history: the outcome of the lookups of the contact stage
    arg,            \* the arguments of a service function called on its own
    ret,            \* the value that call returned
    authors_file,   \* AUTHORS_FILE on disk: exists, mtime, content (the number
                    \* of the version written)
    authors_cache,  \* contact_service._authors_cache
    authors_mtime,  \* contact_service._authors_mtime
    index_files,    \* whether embeddings.npy and embeddings_metadata.json exist
    inmemory_embeddings,    \* search_service._inmemory_embeddings
    inmemory_metadata,      \* search_service._inmemory_metadata
    loads,          \* history: how often the index files were read
    threads         \* overlapping queries of one process: position and locals

vars == <<USE_MOCK, corpus_n, pc, entry, query, num_reviewers, num_vector_candidates,
          topics, query_vector, use_qdrant, candidates, scored, reviewers, steps,
          calls, scoring_path, env, arg, ret, authors_file, authors_cache, authors_mtime,
          index_files, inmemory_embeddings, inmemory_metadata, loads, threads>>

\* The process-wide state and the threads that share it
shared == <<authors_file, authors_cache, authors_mtime, index_files,
            inmemory_embeddings, inmemory_metadata, loads, threads>>

Threads == {1, 2}

\* A module global that is None, and one that holds the object built from
\* version v of a file (v = 0: the empty dict)
Unset == [kind |-> "None", version |-> 0]
Built(v) == [kind |-> "object", version |-> v]

\* The shared state when one request is looked at on its own: the globals as
\* the modules define them, no second thread
NoShared ==
    /\ authors_file = [exists |-> TRUE, mtime |-> 1, content |-> 1]
    /\ authors_cache = Unset
    /\ authors_mtime = 0
    /\ index_files = TRUE
    /\ inmemory_embeddings = Unset
    /\ inmemory_metadata = Unset
    /\ loads = 0
    /\ threads = [t \in Threads |-> [pc |-> "none"]]

NoEnv == [db |-> {}, openalex_up |-> FALSE, orcid_up |-> FALSE]

Init ==
    /\ USE_MOCK \in BOOLEAN
    /\ corpus_n \in CorpusSizes
    /\ pc = "idle"
    /\ entry = "none"
    /\ query = [title |-> <<>>, abstract |-> <<>>, keywords |-> <<>>,
                author_names |-> <<>>, author_institutions |-> <<>>,
                query_vector |-> <<0, 0, 0>>]
    /\ num_reviewers = 0
    /\ num_vector_candidates = 0
    /\ topics = NoTopics
    /\ query_vector = <<0, 0, 0>>
    /\ use_qdrant = FALSE
    /\ candidates = <<>>
    /\ scored = <<>>
    /\ reviewers = <<>>
    /\ steps = <<>>
    /\ calls = <<>>
    /\ scoring_path = "none"
    /\ env = NoEnv
    /\ arg = None
    /\ ret = None
    /\ NoShared

\* app.py: "if not title or not abstract: st.error(...)"
InputValid(title, abstract) == title # <<>> /\ abstract # <<>>

\* The Find Reviewers button: validation, then find_reviewers
ButtonClick ==
    /\ pc = "idle"
    /\ \E rq \in Requests(corpus_n) :
         /\ entry' = "button"
         /\ query' = rq[1]
         /\ num_reviewers' = rq[2]
         /\ num_vector_candidates' = rq[3]
         /\ pc' = IF InputValid(rq[1].title, rq[1].abstract) THEN "extract" ELSE "rejected"
    /\ UNCHANGED <<shared, arg, ret, USE_MOCK, corpus_n, topics, query_vector, use_qdrant, candidates,
                   scored, reviewers, steps, calls, scoring_path, env>>

\* find_reviewers called by any other caller
DirectCall ==
    /\ pc = "idle"
    /\ \E rq \in Requests(corpus_n) :
         /\ entry' = "direct"
         /\ query' = rq[1]
         /\ num_reviewers' = rq[2]
         /\ num_vector_candidates' = rq[3]
         /\ pc' = "extract"
    /\ UNCHANGED <<shared, arg, ret, USE_MOCK, corpus_n, topics, query_vector, use_qdrant, candidates,
                   scored, reviewers, steps, calls, scoring_path, env>>

\* Step 1: extract_topics inside try/except
ExtractTopics ==
    /\ pc = "extract"
    /\ \/ /\ USE_MOCK
          /\ topics' = MockExtractTopics(query.title, query.abstract, query.keywords)
          /\ calls' = calls
          /\ steps' = steps \o <<"Extracting research topics with Claude...">>
       \/ /\ ~USE_MOCK
          /\ topics' \in LiveTopicAnswers(corpus_n)
          /\ calls' = Append(calls, <<"llm_topics", 0>>)
          /\ steps' = steps \o <<"Extracting research topics with Claude...">>
       \/ /\ ~USE_MOCK
          /\ topics' = FallbackTopics(query.keywords)
          /\ calls' = Append(calls, <<"llm_topics", 0>>)
          /\ steps' = steps \o <<"Extracting research topics with Claude...",
                                 "Topic extraction fallback (error)">>
    /\ pc' = "embed"
    /\ UNCHANGED <<shared, arg, ret, USE_MOCK, corpus_n, entry, query, num_reviewers, num_vector_candidates,
                   query_vector, use_qdrant, candidates, scored, reviewers,
                   scoring_path, env>>

\* Step 2: embed_query, not inside any try; its argument
\* topics.get("primary_domains", []) + topics.get("sub_topics", []) is
\* evaluated first and raises when topics is not a dict
EmbedQuery ==
    /\ pc = "embed"
    /\ steps' = Append(steps, "Generating query embedding...")
    /\ \/ /\ topics.type = "dict"
          /\ calls' = Append(calls, <<"embedding", 0>>)
          /\ query_vector' = query.query_vector
          /\ pc' = "probe"
       \/ /\ topics.type = "dict"
          /\ calls' = Append(calls, <<"embedding", 0>>)
          /\ query_vector' = query_vector
          /\ pc' = "raised"
       \/ /\ topics.type # "dict"
          /\ calls' = calls
          /\ query_vector' = query_vector
          /\ pc' = "raised"
    /\ UNCHANGED <<shared, arg, ret, USE_MOCK, corpus_n, entry, query, num_reviewers, num_vector_candidates,
                   topics, use_qdrant, candidates, scored, reviewers, scoring_path, env>>

\* Step 3: _is_qdrant_available(): True only for a 200 answer, False on any
\* other answer or exception
ProbeBackend ==
    /\ pc = "probe"
    /\ calls' = Append(calls, <<"probe", 0>>)
    /\ use_qdrant' \in BOOLEAN
    /\ pc' = "search"
    /\ UNCHANGED <<shared, arg, ret, USE_MOCK, corpus_n, entry, query, num_reviewers, num_vector_candidates,
                   topics, query_vector, candidates, scored, reviewers, steps,
                   scoring_path, env>>

\* A plausible slip: a failed search of the vector index is answered by the
\* local backend
SearchRemoteThenLocal ==
    /\ pc = "search"
    /\ use_qdrant
    /\ steps' = Append(steps, "Searching candidates in Qdrant...")
    /\ \E answered \in BOOLEAN :
         IF answered
         THEN /\ calls' = Append(calls, <<"qdrant_search", 1>>)
              /\ candidates' \in SearchSimilar(corpus_n, query_vector,
                                               num_vector_candidates, 3, <<>>)
         ELSE /\ calls' = calls \o <<<<"qdrant_search", 1>>, <<"inmemory_search", 0>>>>
              /\ candidates' \in SearchInMemory(corpus_n, query_vector,
                                                num_vector_candidates, 3)
    /\ pc' = "retrieved"
    /\ UNCHANGED <<shared, arg, ret, USE_MOCK, corpus_n, entry, query, num_reviewers, num_vector_candidates,
                   topics, query_vector, use_qdrant, scored, reviewers, scoring_path, env>>

\* search_similar, called without exclude_author_ids: the first POST, a
\* second POST to the configured address when the first raises, then
\* raise_for_status
SearchRemote ==
    /\ pc = "search"
    /\ use_qdrant
    /\ steps' = Append(steps, "Searching candidates in Qdrant...")
    /\ \E first_raises \in BOOLEAN, answered \in BOOLEAN :
         /\ calls' = calls \o (IF first_raises THEN <<<<"qdrant_search", 1>>, <<"qdrant_search", 2>>>>
                                               ELSE <<<<"qdrant_search", 1>>>>)
         /\ IF answered
            THEN /\ candidates' \in SearchSimilar(corpus_n, query_vector,
                                                  num_vector_candidates, 3, <<>>)
                 /\ pc' = "retrieved"
            ELSE /\ candidates' = candidates
                 /\ pc' = "raised"
    /\ UNCHANGED <<shared, arg, ret, USE_MOCK, corpus_n, entry, query, num_reviewers, num_vector_candidates,
                   topics, query_vector, use_qdrant, scored, reviewers, scoring_path, env>>

\* _search_inmemory; _load_inmemory_index raises FileNotFoundError when the
\* index files are missing
SearchLocal ==
    /\ pc = "search"
    /\ ~use_qdrant
    /\ steps' = Append(steps, "Searching candidates (in-memory)...")
    /\ calls' = Append(calls, <<"inmemory_search", 0>>)
    /\ \E files_exist \in BOOLEAN :
         IF files_exist
         THEN /\ candidates' \in SearchInMemory(corpus_n, query_vector,
                                                num_vector_candidates, 3)
              /\ pc' = "retrieved"
         ELSE /\ candidates' = candidates
              /\ pc' = "raised"
    /\ UNCHANGED <<shared, arg, ret, USE_MOCK, corpus_n, entry, query, num_reviewers, num_vector_candidates,
                   topics, query_vector, use_qdrant, scored, reviewers, scoring_path, env>>

\* A plausible slip: the early return is missing
NoCandidatesNever(cands) == FALSE

\* "if not candidates"
NoCandidates(cands) == cands = <<>>

\* The early return of find_reviewers
ReturnEmpty ==
    /\ pc = "retrieved"
    /\ NoCandidates(candidates)
    /\ reviewers' = <<>>
    /\ steps' = Append(steps, "No candidates found in vector search.")
    /\ pc' = "done"
    /\ UNCHANGED <<shared, arg, ret, USE_MOCK, corpus_n, entry, query, num_reviewers, num_vector_candidates,
                   topics, query_vector, use_qdrant, candidates, scored, calls,
                   scoring_path, env>>


\* The parsed answer of the completion service to the re-ranking prompt: a
\* list of entries, one per candidate it chose to rank.  shape says which
\* candidate_index values it lists (n candidates were sent), scoring which
\* scores it gives.
ResponseKinds ==
    { <<"all", "descending">>, <<"all", "equal">>, <<"reversed", "equal">>,
      <<"reversed", "descending">>, <<"all", "out_of_range">>,
      <<"drop_last", "descending">>, <<"dup_first", "equal">>,
      <<"one_based", "equal">>, <<"empty", "equal">> }

ResponseIndices(shape, n) ==
    CASE shape = "all" -> [k \in 1..n |-> k - 1]
      [] shape = "reversed" -> [k \in 1..n |-> n - k]
      [] shape = "drop_last" -> [k \in 1..(n - 1) |-> k - 1]
      [] shape = "dup_first" -> <<0>> \o [k \in 1..n |-> k - 1]
      [] shape = "one_based" -> [k \in 1..n |-> k]
      [] OTHER -> <<>>

ResponseEntry(idx, k, len, scoring) ==
    [candidate_index |-> idx,
     topic_score |-> IF scoring = "out_of_range" /\ k = 1 THEN RInt(12) ELSE RInt(7),
     methodology_score |-> RInt(7),
     seniority_score |-> RInt(7),
     recency_score |-> RInt(7),
     overall_score |-> CASE scoring = "equal" -> RInt(7)
                         [] scoring = "descending" -> Rat(90 - k, 10)
                         [] OTHER -> IF k = 1 THEN RInt(11)
                                     ELSE IF k = len THEN RInt(-1) ELSE RInt(7),
     reasoning |-> <<<<"completion service", idx>>>>]

LiveResponses(n) ==
    {[k \in 1..Len(ResponseIndices(kind[1], n)) |->
         ResponseEntry(ResponseIndices(kind[1], n)[k], k,
                       Len(ResponseIndices(kind[1], n)), kind[2])] :
     kind \in ResponseKinds}

\* Step 4: rerank_candidates inside try/except
Rerank ==
    /\ pc = "retrieved"
    /\ ~NoCandidates(candidates)
    /\ \/ /\ USE_MOCK
          /\ scored' = MockRerank(query.title, query.abstract, query.keywords,
                                  CandidatesForRerank(candidates))
          /\ scoring_path' = "mock"
          /\ calls' = Append(calls, <<"rerank", 0>>)
          /\ steps' = steps \o <<"Found vector candidates",
                                 "Re-ranking candidates with Claude...">>
       \/ /\ ~USE_MOCK
          /\ \E rankings \in LiveResponses(Len(CandidatesForRerank(candidates))) :
                scored' = LiveRerank(rankings, CandidatesForRerank(candidates))
          /\ scoring_path' = "live"
          /\ calls' = calls \o <<<<"rerank", 0>>, <<"llm_rerank", 0>>>>
          /\ steps' = steps \o <<"Found vector candidates",
                                 "Re-ranking candidates with Claude...">>
       \/ /\ ~USE_MOCK
          /\ scored' = FallbackRerank(CandidatesForRerank(candidates))
          /\ scoring_path' = "fallback"
          /\ calls' = calls \o <<<<"rerank", 0>>, <<"llm_rerank", 0>>>>
          /\ steps' = steps \o <<"Found vector candidates",
                                 "Re-ranking candidates with Claude...",
                                 "Re-ranking fallback (error)">>
    /\ pc' = "enrich"
    /\ UNCHANGED <<shared, arg, ret, USE_MOCK, corpus_n, entry, query, num_reviewers, num_vector_candidates,
                   topics, query_vector, use_qdrant, candidates, reviewers, env>>

\* The requests enrich_contact sends for one candidate
RECURSIVE EnrichCalls(_, _, _)
EnrichCalls(cands, db, openalex_up) ==
    IF cands = <<>> THEN <<>>
    ELSE (IF QueriesOpenAlex(Head(cands), db)
          THEN <<<<"openalex", Head(cands).author_id>>>> ELSE <<>>)
         \o (IF QueriesOrcid(Head(cands), db, openalex_up)
             THEN <<<<"orcid", Head(cands).author_id>>>> ELSE <<>>)
         \o EnrichCalls(Tail(cands), db, openalex_up)

\* The authors file holds the whole corpus or is missing; each of the two
\* services answers or fails for the whole stage.
EnrichEnvs ==
    { [db |-> 1..MaxCorpus, openalex_up |-> TRUE, orcid_up |-> TRUE],
      [db |-> {}, openalex_up |-> TRUE, orcid_up |-> TRUE],
      [db |-> {}, openalex_up |-> TRUE, orcid_up |-> FALSE],
      [db |-> {}, openalex_up |-> FALSE, orcid_up |-> TRUE],
      [db |-> {}, openalex_up |-> FALSE, orcid_up |-> FALSE] }

\* Step 5: enrich_candidates
Enrich ==
    /\ pc = "enrich"
    /\ \E e \in EnrichEnvs :
         /\ scored' = EnrichCandidates(scored, e.db, e.openalex_up, e.orcid_up)
         /\ env' = e
         /\ calls' = calls \o <<<<"enrich", 0>>>> \o EnrichCalls(scored, e.db, e.openalex_up)
    /\ steps' = Append(steps, "Enriching contact information...")
    /\ pc' = "coi"
    /\ UNCHANGED <<shared, arg, ret, USE_MOCK, corpus_n, entry, query, num_reviewers, num_vector_candidates,
                   topics, query_vector, use_qdrant, candidates, reviewers, scoring_path>>

\* scored[:num_reviewers]
TopN(l, n) == SubSeq(l, 1, Min2(Len(l), n))

\* A plausible slip: r["rank"] = i
AssignRanksFromZero(l) == [i \in 1..Len(l) |-> [l[i] EXCEPT !.rank = i - 1]]

\* for i, r in enumerate(reviewers): r["rank"] = i + 1
AssignRanks(l) == [i \in 1..Len(l) |-> [l[i] EXCEPT !.rank = i]]

\* Step 6 and the end of find_reviewers: check_all_candidates (called without
\* paper_author_ids), truncation, ranks
CheckAndReturn ==
    /\ pc = "coi"
    /\ LET checked == CheckAllCandidates(scored, query.author_names,
                                         query.author_institutions, <<>>)
       IN \* the reviewers are the first dicts of scored: the ranks show there too
          /\ scored' = AssignRanks(TopN(checked, num_reviewers))
                        \o SubSeq(checked, Len(TopN(checked, num_reviewers)) + 1, Len(checked))
          /\ reviewers' = AssignRanks(TopN(checked, num_reviewers))
    /\ calls' = Append(calls, <<"coi", 0>>)
    /\ steps' = steps \o <<"Checking for conflicts of interest...", "Returning reviewers">>
    /\ pc' = "done"
    /\ UNCHANGED <<shared, arg, ret, USE_MOCK, corpus_n, entry, query, num_reviewers, num_vector_candidates,
                   topics, query_vector, use_qdrant, candidates, scoring_path, env>>

Next ==
    \/ ButtonClick
    \/ DirectCall
    \/ ExtractTopics
    \/ EmbedQuery
    \/ ProbeBackend
    \/ SearchRemote
    \/ SearchLocal
    \/ ReturnEmpty
    \/ Rerank
    \/ Enrich
    \/ CheckAndReturn

Spec == Init /\ [][Next]_vars


(***************************************************************************)
(* Properties                                                              *)
(***************************************************************************)
ScoreFields ==
    {"topic_score", "methodology_score", "seniority_score", "recency_score", "overall_score"}

InRange(x) == RLeq(RInt(0), x) /\ RLeq(x, RInt(10))

\* C1: every reviewer find_reviewers returns has its four sub-scores and its
\* overall score in [0,10], whichever way the candidates were scored.
C1_ScoresInRange ==
    pc = "done" =>
        \A i \in DOMAIN reviewers : \A f \in ScoreFields : InRange(reviewers[i][f])

\* The position of a returned reviewer in the retrieval output
RetrievalPos(r) == CHOOSE k \in DOMAIN candidates : candidates[k].author_id = r.author_id

\* C2: the returned list is in descending order of overall_score, and two
\* reviewers of equal overall_score stand in the order retrieval gave them.
C2_SortedStable ==
    pc = "done" =>
        \A i, j \in DOMAIN reviewers :
            i < j =>
                /\ RLeq(reviewers[j].overall_score, reviewers[i].overall_score)
                /\ (/\ reviewers[i].overall_score = reviewers[j].overall_score
                    /\ reviewers[i].author_id # reviewers[j].author_id)
                       => RetrievalPos(reviewers[i]) < RetrievalPos(reviewers[j])

\* C3: the reviewer at position i (counted from 1) has rank i, the returned
\* list is the scored list cut to num_reviewers, and no candidate carries a
\* rank before the cut or beyond it.
C3_RanksMatchPosition ==
    /\ pc = "done" =>
          /\ Len(reviewers) = Min2(Len(scored), num_reviewers)
          /\ \A i \in DOMAIN reviewers :
                reviewers[i].rank = i /\ reviewers[i] = scored[i]
          /\ \A k \in DOMAIN scored : k > Len(reviewers) => scored[k].rank = 0
    /\ pc # "done" =>
          /\ reviewers = <<>>
          /\ \A k \in DOMAIN scored : scored[k].rank = 0

C3_Witness ==
    /\ pc = "done"
    /\ Len(reviewers) >= 2
    /\ Len(scored) > Len(reviewers)
    /\ reviewers[2].rank = 2

\* The e-mail the authoritative steps of enrich_contact (the local record,
\* the registry) supplied for a candidate, None when they supplied none
AuthoritativeEmail(c) == Step3Contact(c, env.db, env.openalex_up, env.orcid_up).email

Enriched == pc \in {"coi", "done"}

\* C4: after enrich_contact, an e-mail that no authoritative step supplied
\* (inferred from the name and institution, or fabricated) is marked
\* email_is_inferred = true.
C4_InferredEmailMarked ==
    Enriched =>
        \A k \in DOMAIN scored :
            (scored[k].contact.email # None /\ AuthoritativeEmail(scored[k]) = None)
                => scored[k].contact.email_is_inferred = <<TRUE>>

\* C5: after enrich_contact, an e-mail an authoritative step supplied is the
\* e-mail of the contact and is not marked inferred.
C5_AuthoritativeEmailKept ==
    Enriched =>
        \A k \in DOMAIN scored :
            AuthoritativeEmail(scored[k]) # None
                => /\ scored[k].contact.email = AuthoritativeEmail(scored[k])
                   /\ scored[k].contact.email_is_inferred # <<TRUE>>

C5_Witness ==
    /\ Enriched
    /\ \E k \in DOMAIN scored :
          /\ EmailSource(scored[k], env.db, env.openalex_up, env.orcid_up) = "registry"
          /\ scored[k].contact.email = S_EmailReg
    /\ \E k \in DOMAIN scored :
          /\ EmailSource(scored[k], env.db, env.openalex_up, env.orcid_up) = "inference"
          /\ scored[k].contact.email_is_inferred = <<TRUE>>


CallNames == {calls[k][1] : k \in DOMAIN calls}

\* C6: a query with an empty title or an empty abstract is rejected before
\* any external call is made, whichever way the pipeline was entered.
C6_InvalidRejectedBeforeCalls ==
    (entry # "none" /\ ~InputValid(query.title, query.abstract))
        => pc = "rejected" /\ calls = <<>>

\* C7: no failure of a dependency makes find_reviewers raise to its caller.
C7_NoStageFatal == pc # "raised"

\* The authors of the corpus the works_count filter lets through
EligibleAuthors == {i \in 1..corpus_n : AuthorMeta(i).works_count >= 3}

\* C8: when fewer authors are eligible than reviewers were requested (and
\* num_vector_candidates >= num_reviewers), the reviewers find_reviewers
\* returns are the eligible authors, each once.
C8_AllEligibleReturned ==
    (/\ pc = "done"
     /\ Cardinality(EligibleAuthors) < num_reviewers
     /\ num_vector_candidates >= num_reviewers)
        => /\ {reviewers[i].author_id : i \in DOMAIN reviewers} = EligibleAuthors
           /\ Len(reviewers) = Cardinality(EligibleAuthors)

\* C9: when retrieval yields no candidate, find_reviewers returns an empty
\* reviewer list with the step "No candidates found in vector search.", and
\* neither re-ranking nor contact enrichment nor the conflict check was called.
C9_ZeroCandidates ==
    (pc = "done" /\ candidates = <<>>)
        => /\ reviewers = <<>>
           /\ steps[Len(steps)] = "No candidates found in vector search."
           /\ CallNames \cap {"rerank", "llm_rerank", "enrich", "openalex", "orcid", "coi"} = {}
           /\ scored = <<>>

C9_Witness ==
    /\ pc = "done"
    /\ candidates = <<>>
    /\ "inmemory_search" \in CallNames
    /\ steps[Len(steps)] = "No candidates found in vector search."

\* The retrieval stage has produced its output
Retrieved == pc \in {"retrieved", "enrich", "coi", "done"}

Scored == pc \in {"enrich", "coi", "done"}

\* |a - b| for rationals
RDist(a, b) == IF RLeq(a, b) THEN RSub(b, a) ELSE RSub(a, b)

\* The weighted sum of the sub-scores a candidate reports
ReportedSum(c) ==
    RAdd(RAdd(RMul(Rat(35, 100), c.topic_score), RMul(Rat(30, 100), c.methodology_score)),
         RAdd(RMul(Rat(15, 100), c.seniority_score), RMul(Rat(20, 100), c.recency_score)))

\* C11: on the heuristic path the overall_score of every candidate is within
\* one decimal (0.1) of 0.35*topic + 0.30*methodology + 0.15*seniority +
\* 0.20*recency of the sub-scores it reports.
C11_WeightedSum ==
    (Scored /\ scoring_path = "mock") =>
        \A k \in DOMAIN scored :
            RLeq(RDist(scored[k].overall_score, ReportedSum(scored[k])), Rat(1, 10))

\* A heuristic score whose weighted sum is not itself a one-decimal number
C11_Witness ==
    /\ Scored
    /\ scoring_path = "mock"
    /\ \E k \in DOMAIN scored :
          /\ scored[k].overall_score # ReportedSum(scored[k])
          /\ RLt(RInt(0), scored[k].topic_score)


HeuristicScored ==
    MockRerank(query.title, query.abstract, query.keywords, CandidatesForRerank(candidates))

\* C12: when the remote scoring strategy fails, or the live service is not
\* configured, the scored list handed back to the pipeline (scores, reasoning
\* and order) is the one _mock_rerank computes on the same inputs.
C12_FallbackIsHeuristic ==
    (pc = "enrich" /\ scoring_path \in {"mock", "fallback"}) => scored = HeuristicScored


ExtractionFailed == "Topic extraction fallback (error)" \in Range(steps)

\* C13: topic extraction never stops the pipeline, and when the remote
\* strategy hits an error the profile the rest of the pipeline uses is the
\* result of _mock_extract_topics for the same title, abstract and keywords.
C13_FallbackProfileIsHeuristic ==
    ExtractionFailed =>
        topics = MockExtractTopics(query.title, query.abstract, query.keywords)


\* The whitespace-separated tokens of a name that hold a letter a-z or A-Z
AlphaTokens(name) ==
    SelectSeq(Split(name),
              LAMBDA w : \E i \in DOMAIN w : IsLowerCh(w[i]) \/ IsUpperCh(w[i]))

S_JaneDoeLoud == <<32, 32, 74, 65, 78, 69, 32, 68, 79, 69, 32>>  \* '  JANE DOE '
S_JaneDoePadded == <<32, 106, 97, 110, 101, 32, 100, 111, 101>>  \* ' jane doe'
S_WeiLi == <<87, 101, 105, 32, 76, 105>>  \* 'Wei Li'
S_BoLi == <<66, 111, 32, 76, 105>>  \* 'Bo Li'
S_OxfordPadded == <<32, 79, 88, 70, 79, 82, 68, 32>>  \* ' OXFORD '
S_MitMediaLab == <<77, 73, 84, 32, 77, 101, 100, 105, 97, 32, 76, 97, 98>>  \* 'MIT Media Lab'
S_Harvard == <<72, 97, 114, 118, 97, 114, 100>>  \* 'Harvard'
S_Blank == <<32, 32>>  \* '  '

MaxCoiCandidates == 2

\* Candidates as the contact stage leaves them, and variations of their name,
\* institution, affiliations and co-author identifiers
CoiCandidates ==
    LET c(i) == EnrichContact(Candidate(i, Rat(1, 2)), 1..MaxCorpus, TRUE, TRUE)
    IN  { c(1), c(3), c(4),
          [c(1) EXCEPT !.name = S_JaneDoeLoud, !.institution = <<>>,
                       !.co_author_ids = <<2, 4>>],
          [c(3) EXCEPT !.name = S_WeiLi, !.institution = S_MIT, !.affiliations = <<>>],
          [c(4) EXCEPT !.name = <<>>, !.institution = <<>>, !.affiliations = <<>>] }

SeqsUpTo(set, n) == UNION {[1..m -> set] : m \in 0..n}

CoiArgs ==
    [candidates : SeqsUpTo(CoiCandidates, MaxCoiCandidates),
     paper_author_names : { <<>>, <<S_JaneDoe>>, <<S_JaneDoePadded, S_BoWei>>,
                            <<S_BoLi, S_Blank>> },
     paper_author_institutions : { <<>>, <<S_OxfordShort>>, <<S_Blank>>,
                                   <<S_MitMediaLab, S_Harvard, S_OxfordPadded>> },
     paper_author_ids : { <<>>, <<2>>, <<4, 2>>, <<7, 2, 2>> }]

\* The variables of find_reviewers, which these calls leave alone
pipeline == <<USE_MOCK, corpus_n, entry, query, num_reviewers, num_vector_candidates,
              topics, query_vector, use_qdrant, candidates, scored, reviewers, steps,
              calls, scoring_path, env>>

NoPipeline ==
    /\ USE_MOCK = TRUE
    /\ corpus_n = MaxCorpus
    /\ entry = "none"
    /\ query = [title |-> <<>>, abstract |-> <<>>, keywords |-> <<>>,
                author_names |-> <<>>, author_institutions |-> <<>>,
                query_vector |-> <<0, 0, 0>>]
    /\ num_reviewers = 0
    /\ num_vector_candidates = 0
    /\ topics = NoTopics
    /\ query_vector = <<0, 0, 0>>
    /\ use_qdrant = FALSE
    /\ candidates = <<>>
    /\ scored = <<>>
    /\ reviewers = <<>>
    /\ steps = <<>>
    /\ calls = <<>>
    /\ scoring_path = "none"
    /\ env = NoEnv

InitCoi ==
    /\ NoPipeline
    /\ NoShared
    /\ pc = "call"
    /\ arg \in CoiArgs
    /\ ret = None

\* check_all_candidates(candidates, paper_author_names,
\* paper_author_institutions, paper_author_ids): the flags are set on the
\* caller's own candidates and the same list is returned
CallCheckAllCandidates ==
    /\ pc = "call"
    /\ ret' = CheckAllCandidates(arg.candidates, arg.paper_author_names,
                                 arg.paper_author_institutions, arg.paper_author_ids)
    /\ arg' = [arg EXCEPT !.candidates = ret']
    /\ pc' = "returned"
    /\ UNCHANGED <<pipeline, shared>>

NextCoi == CallCheckAllCandidates

SpecCoi == InitCoi /\ [][NextCoi]_vars


FlagsOfType(c, types) == SelectSeq(c.coi_flags, LAMBDA f : f.type \in types)

\* C15: whenever the candidate's co-author identifiers contain an excluded
\* author identifier, detect_conflicts returns a co_author flag of severity
\* high for it, one flag per matching entry of the excluded list.
C15_CoAuthorFlagged ==
    pc = "returned" =>
        \A k \in DOMAIN ret :
            LET ids == arg.paper_author_ids
                matching == {i \in DOMAIN ids : ids[i] \in Range(ret[k].co_author_ids)}
                flags == FlagsOfType(ret[k], {"co_author"})
            IN  /\ \A i \in matching :
                      \E j \in DOMAIN flags :
                          flags[j].severity = "high" /\ flags[j].detail = ids[i]
                /\ Len(flags) = Cardinality(matching)
                /\ \A j \in DOMAIN flags : flags[j].severity = "high"

C15_Witness ==
    /\ pc = "returned"
    /\ \E k \in DOMAIN ret : Len(FlagsOfType(ret[k], {"co_author"})) >= 2
    /\ \E k \in DOMAIN ret :
          ret[k].co_author_ids # <<>> /\ FlagsOfType(ret[k], {"co_author"}) = <<>>

Trimmed(s) == Strip(Lower(s))

\* C16: a candidate name and an excluded name that are non-empty and equal
\* after trimming and lower-casing give a same_person/critical flag;
\* otherwise equal last tokens longer than 2 characters give a
\* possible_relation/low flag; never both for one (candidate, name) pair.
C16_NameFlags ==
    pc = "returned" =>
        \A k \in DOMAIN ret : \A i \in DOMAIN arg.paper_author_names :
            LET author == arg.paper_author_names[i]
                a == Trimmed(author)
                c == Trimmed(ret[k].name)
                flags == SelectSeq(FlagsOfType(ret[k], {"same_person", "possible_relation"}),
                                   LAMBDA f : f.detail = author)
            IN  /\ Len(flags) <= 1
                /\ (a # <<>> /\ c # <<>> /\ a = c) =>
                      flags = <<[type |-> "same_person", severity |-> "critical",
                                 detail |-> author]>>
                /\ (a # <<>> /\ c # <<>> /\ a # c
                      /\ Split(a)[Len(Split(a))] = Split(c)[Len(Split(c))]
                      /\ Len(Split(c)[Len(Split(c))]) > 2) =>
                      flags = <<[type |-> "possible_relation", severity |-> "low",
                                 detail |-> author]>>

C16_Witness ==
    /\ pc = "returned"
    /\ \E k \in DOMAIN ret :
          /\ ret[k].name = S_JaneDoeLoud
          /\ FlagsOfType(ret[k], {"same_person"}) # <<>>
    /\ \E k \in DOMAIN ret :
          /\ ret[k].name = S_LiWei
          /\ FlagsOfType(ret[k], {"possible_relation"}) # <<>>

\* C17: a same_institution/medium flag is returned when a candidate
\* affiliation (affiliations list or institution field) and an excluded
\* institution, both non-empty, are one inside the other without regard to
\* case, and no same_institution flag is returned when there is no such pair.
C17_InstitutionFlags ==
    pc = "returned" =>
        \A k \in DOMAIN ret :
            LET own == ({Trimmed(ret[k].affiliations[j].institution) :
                            j \in DOMAIN ret[k].affiliations}
                        \cup {Trimmed(ret[k].institution)}) \ {<<>>}
                excluded == arg.paper_author_institutions
                Inside(x, y) == x # <<>> /\ y # <<>> /\ (IsSubstr(x, y) \/ IsSubstr(y, x))
                matching == {i \in DOMAIN excluded :
                                \E ci \in own : Inside(Trimmed(excluded[i]), ci)}
                flags == FlagsOfType(ret[k], {"same_institution"})
            IN  /\ (matching # {}) <=> (flags # <<>>)
                /\ Len(flags) = Cardinality(matching)
                /\ \A j \in DOMAIN flags : flags[j].severity = "medium"

C17_Witness ==
    /\ pc = "returned"
    /\ \E k \in DOMAIN ret :
          /\ ret[k].institution = S_MIT
          /\ S_MitMediaLab \in Range(arg.paper_author_institutions)
          /\ FlagsOfType(ret[k], {"same_institution"}) # <<>>
    /\ \E k \in DOMAIN ret :
          /\ ret[k].institution = <<>>
          /\ S_OxfordPadded \in Range(arg.paper_author_institutions)
          /\ FlagsOfType(ret[k], {"same_institution"}) # <<>>

C19_ProfileUrlAttached ==
    Enriched =>
        \A k \in DOMAIN scored :
            scored[k].contact.openalex_url = <<"https://openalex.org/", scored[k].author_id>>

C19_Witness ==
    /\ Enriched
    /\ \E k \in DOMAIN scored :
          scored[k].contact.email = None /\ scored[k].contact.openalex_url # None
    /\ \E k \in DOMAIN scored :
          /\ AuthoritativeEmail(scored[k]) = None
          /\ scored[k].contact.email # None
          /\ scored[k].contact.openalex_url # None
    /\ \E k \in DOMAIN scored :
          AuthoritativeEmail(scored[k]) # None /\ scored[k].contact.openalex_url # None


(***************************************************************************)
(* _get_institution_domain called on its own                               *)
(***************************************************************************)
S_OxfordEdu == <<111, 120, 102, 111, 114, 100, 46, 101, 100, 117>>  \* oxford.edu

\* Institution names put together from a prefix, 'University of' in some
\* spelling, a name X and a suffix
NamePrefixes ==
    { <<>>,  \* ''
      <<84, 104, 101, 32>>,  \* 'The '
      <<116, 104, 101, 32, 32>> }  \* 'the  '

\* 'University of', also with other white space between the words
NameCores ==
    { <<85, 110, 105, 118, 101, 114, 115, 105, 116, 121, 32, 111, 102>>,  \* 'University of'
      <<85, 78, 73, 86, 69, 82, 83, 73, 84, 89, 32, 32, 79, 70>>,  \* 'UNIVERSITY  OF'
      <<117, 110, 105, 118, 101, 114, 115, 105, 116, 121, 9, 111, 102>> }  \* 'university\tof'

\* X: in the table, not in it, two words, a hyphen, a digit, a comma
NameXs ==
    { <<79, 120, 102, 111, 114, 100>>,  \* 'Oxford'
      <<90, 122, 122>>,  \* 'Zzz'
      <<70, 111, 111, 32, 66, 97, 114>>,  \* 'Foo Bar'
      <<78, 111, 118, 103, 111, 114, 111, 100, 45, 87, 101, 115, 116>>,  \* 'Novgorod-West'
      <<57, 108, 105, 118, 101, 115>>,  \* '9lives'
      <<81, 113, 44, 32, 77, 97, 105, 110, 32, 67, 97, 109, 112, 117, 115>> }  \* 'Qq, Main Campus'

\* trailing white space
NameSuffixes ==
    { <<>>,  \* ''
      <<32>> }  \* ' '

\* Names of other forms
OtherNames ==
    { <<>>,  \* ''
      <<77, 73, 84>>,  \* 'MIT'
      <<90, 122, 122, 32, 85, 110, 105, 118, 101, 114, 115, 105, 116, 121>>,  \* 'Zzz University'
      <<85, 110, 105, 118, 101, 114, 115, 105, 116, 121, 32, 111, 102>>,  \* 'University of'
      <<85, 110, 105, 118, 101, 114, 115, 105, 100, 97, 100, 32, 100, 101, 32, 90, 122, 122>> }  \* 'Universidad de Zzz'

InstitutionNames ==
    { p \o c \o <<32>> \o x \o sfx :
        p \in NamePrefixes, c \in NameCores, x \in NameXs, sfx \in NameSuffixes }
    \cup OtherNames

InitDomain ==
    /\ NoPipeline
    /\ NoShared
    /\ pc = "call"
    /\ arg \in InstitutionNames
    /\ ret = None

\* _get_institution_domain(institution); ret = <<>> when it returned None
CallGetInstitutionDomain ==
    /\ pc = "call"
    /\ ret' = GetInstitutionDomain(arg)
    /\ pc' = "returned"
    /\ UNCHANGED <<arg, pipeline, shared>>

NextDomain == CallGetInstitutionDomain

SpecDomain == InitDomain /\ [][NextDomain]_vars

\* The name read as (the)? university of X: X's first word, the run of word
\* characters X starts with; <<>> when the name is not of that form
FirstWordOfX(name) ==
    LET t == Split(Trimmed(name))
        off == IF t # <<>> /\ t[1] = L_the THEN 1 ELSE 0
        x == t[off + 3]
        n == CHOOSE m \in 1..Len(x) :
                 /\ \A i \in 1..m : IsWordCh(x[i])
                 /\ (m = Len(x) \/ ~IsWordCh(x[m + 1]))
    IN  IF /\ Len(t) >= off + 3
           /\ t[off + 1] = L_university
           /\ t[off + 2] = L_of
           /\ IsWordCh(x[1])
        THEN SubSeq(x, 1, n) ELSE <<>>

\* C20: an institution name of the form (the) University of X that the
\* curated table does not resolve gets the first word of X followed by
\* .edu; a name the curated table resolves gets the table's domain, the
\* table being looked up before any pattern.
C20_UniversityOfRule ==
    (pc = "returned" /\ arg # <<>>) =>
        /\ CuratedDomain(Trimmed(arg), 1) # <<>> => ret = CuratedDomain(Trimmed(arg), 1)
        /\ (CuratedDomain(Trimmed(arg), 1) = <<>> /\ FirstWordOfX(arg) # <<>>) =>
              ret = FirstWordOfX(arg) \o L_edu

C20_Witness ==
    /\ pc = "returned"
    /\ CuratedDomain(Trimmed(arg), 1) = <<>>
    /\ FirstWordOfX(arg) # <<>>
    /\ ret = S_OxfordEdu


\* ---------------------------------------------------------------------
\* The topic profile find_reviewers returns
\* ---------------------------------------------------------------------

\* find_reviewers has returned its dict (either return statement)
Returned == pc = "done"

\* The lengths the prompt and the heuristic ask for
WithinTopicLimits(t) ==
    /\ Len(t.primary_domains) <= 4
    /\ Len(t.methodologies) <= 3
    /\ Len(t.sub_topics) <= 5
    /\ Len(t.expanded_terms) <= 8
    /\ Len(t.interdisciplinary_bridges) <= 2

\* C23: every topic profile find_reviewers returns, on every path, has at
\* most 4 primary domains, 3 methodologies, 5 sub-topics, 8 expanded terms
\* and 2 interdisciplinary bridges.
C23_TopicProfileBounded == Returned => WithinTopicLimits(topics)

\* The three paths of C23 taken apart: the heuristic, the completion
\* service, the except branch of find_reviewers
C23_HeuristicBounded ==
    (Returned /\ USE_MOCK) => WithinTopicLimits(topics)
C23_LiveBounded ==
    (Returned /\ ~USE_MOCK /\ ~ExtractionFailed) => WithinTopicLimits(topics)
C23_FallbackBounded ==
    (Returned /\ ExtractionFailed) => WithinTopicLimits(topics)


\* ---------------------------------------------------------------------
\* The order of the contact cascade
\* ---------------------------------------------------------------------

\* The e-mail of the local record of an author, None when the authors file
\* has no record or the record no e-mail (history: env is the outcome of
\* the lookups of this invocation)
StoredEmail(id) ==
    IF id \in env.db THEN StoredAuthor(id).contact.email ELSE None

\* The request sent for a candidate of this invocation
Requested(service, id) == <<service, id>> \in Range(calls)

\* The e-mail the registry answered with for a candidate, None when it was
\* not asked, failed or had none
RegistryEmail(c) ==
    IF Requested("orcid", c.author_id) /\ env.orcid_up
    THEN OrcidContact(OrcidIdOf(c, env.db, env.openalex_up)).email
    ELSE None

\* Step 5 wrote into the contact
InferenceRan(c) == c.contact.email_is_inferred # None

\* C24: the metadata API is asked for a candidate only if the local record
\* gave no e-mail; the registry only if an e-mail is still missing and a
\* registry identifier is known; inference or fabrication runs only if
\* steps 1-3 gave no e-mail; an e-mail of an earlier step is never
\* overwritten by a later one.
C24_CascadeShortCircuits ==
    Enriched =>
        \A k \in DOMAIN scored :
            LET c == scored[k]
                id == scored[k].author_id
            IN  /\ Requested("openalex", id) => StoredEmail(id) = None
                /\ Requested("orcid", id) =>
                      /\ StoredEmail(id) = None
                      /\ OrcidIdOf(c, env.db, env.openalex_up) # 0
                /\ InferenceRan(c) => StoredEmail(id) = None /\ RegistryEmail(c) = None
                /\ StoredEmail(id) # None => c.contact.email = StoredEmail(id)
                /\ (StoredEmail(id) = None /\ RegistryEmail(c) # None)
                      => c.contact.email = RegistryEmail(c)

\* One result list with a candidate whose e-mail is the local record's and
\* for whom nothing was requested, one whose e-mail is the registry's after
\* both requests, and one for whom both were requested before inference ran
C24_Witness ==
    /\ Enriched
    /\ \E k \in DOMAIN scored :
          /\ StoredEmail(scored[k].author_id) # None
          /\ scored[k].contact.email = StoredEmail(scored[k].author_id)
          /\ ~Requested("openalex", scored[k].author_id)
          /\ ~Requested("orcid", scored[k].author_id)
    /\ \E k \in DOMAIN scored :
          /\ Requested("openalex", scored[k].author_id)
          /\ Requested("orcid", scored[k].author_id)
          /\ scored[k].contact.email = S_EmailReg
          /\ ~InferenceRan(scored[k])
    /\ \E k \in DOMAIN scored :
          /\ Requested("openalex", scored[k].author_id)
          /\ Requested("orcid", scored[k].author_id)
          /\ InferenceRan(scored[k])
    /\ \E k \in DOMAIN scored :
          /\ Requested("openalex", scored[k].author_id)
          /\ ~Requested("orcid", scored[k].author_id)
          /\ InferenceRan(scored[k])


\* ---------------------------------------------------------------------
\* The tag of an inferred or fabricated e-mail
\* ---------------------------------------------------------------------

\* C25: for every e-mail produced by pattern inference or last-resort
\* fabrication, email_is_inferred is true exactly when the sum of the
\* character codes of the candidate's name, modulo 5, is less than 2, and
\* false otherwise.
C25_TagIsNameHash ==
    Enriched =>
        \A k \in DOMAIN scored :
            (scored[k].contact.email # None /\ AuthoritativeEmail(scored[k]) = None)
                => scored[k].contact.email_is_inferred
                      = <<SumSeq(scored[k].name) % 5 \in {0, 1}>>

\* One result list with an inferred e-mail that is tagged, an inferred one
\* that is not (name sum 2 modulo 5, next to the threshold), and a
\* fabricated one of either kind
C25_Witness ==
    /\ Enriched
    /\ \E k \in DOMAIN scored :
          /\ EmailSource(scored[k], env.db, env.openalex_up, env.orcid_up) = "inference"
          /\ scored[k].contact.email_is_inferred = <<TRUE>>
    /\ \E k \in DOMAIN scored :
          /\ EmailSource(scored[k], env.db, env.openalex_up, env.orcid_up) = "inference"
          /\ SumSeq(scored[k].name) % 5 = 2
          /\ scored[k].contact.email_is_inferred = <<FALSE>>
    /\ \E k \in DOMAIN scored :
          /\ EmailSource(scored[k], env.db, env.openalex_up, env.orcid_up) = "fabrication"
          /\ scored[k].contact.email_is_inferred = <<TRUE>>
    /\ \E k \in DOMAIN scored :
          /\ EmailSource(scored[k], env.db, env.openalex_up, env.orcid_up) = "fabrication"
          /\ scored[k].contact.email_is_inferred = <<FALSE>>


\* ---------------------------------------------------------------------
\* Outbound requests of one invocation
\* ---------------------------------------------------------------------

\* The number of requests sent to a service in this invocation
Attempts(service) == Cardinality({k \in DOMAIN calls : calls[k][1] = service})

\* The number of requests sent to a service for one candidate
AttemptsFor(service, id) ==
    Cardinality({k \in DOMAIN calls : calls[k] = <<service, id>>})

\* C26: no outbound request is retried: the embedding, the probe, the
\* vector-index search and each completion request are attempted at most
\* once per invocation, the metadata API and the registry at most once per
\* candidate.
C26_NoRetry ==
    /\ \A service \in {"embedding", "probe", "qdrant_search", "llm_topics", "llm_rerank"} :
          Attempts(service) <= 1
    /\ \A id \in 1..MaxCorpus :
          AttemptsFor("openalex", id) <= 1 /\ AttemptsFor("orcid", id) <= 1

\* The parts of C26 taken apart: the requests other than the vector-index
\* search sent once per invocation; the requests sent per candidate
C26_OthersNotRetried ==
    \A service \in {"embedding", "probe", "llm_topics", "llm_rerank"} :
        Attempts(service) <= 1
C26_OncePerCandidate ==
    \A id \in 1..MaxCorpus :
        AttemptsFor("openalex", id) <= 1 /\ AttemptsFor("orcid", id) <= 1


(***************************************************************************)
(* The two retrieval backends called on their own, by a caller that has    *)
(* author identifiers to exclude                                           *)
(***************************************************************************)
MaxExcluded == 2

\* The call retrieve(vector, limit, minWorksCount, excludeIds) over a corpus
\* of SmallCorpus authors
RetrieveArgs ==
    { [query_vector |-> v, limit |-> l, min_works |-> 3, exclude_author_ids |-> x] :
        v \in {<<2, 3, 6>>, <<-2, -3, -6>>},
        l \in {1, 3, SmallPool},
        x \in SeqsUpTo(1..SmallCorpus, MaxExcluded) }

InitRetrieve ==
    /\ NoPipeline
    /\ NoShared
    /\ pc = "call"
    /\ arg \in RetrieveArgs
    /\ ret = None

\* search_similar(client, collection_name, query_vector, limit, min_works,
\* exclude_author_ids)
CallSearchSimilar ==
    /\ pc = "call"
    /\ ret' \in SearchSimilar(SmallCorpus, arg.query_vector, arg.limit, arg.min_works,
                              arg.exclude_author_ids)
    /\ pc' = "returned_remote"
    /\ UNCHANGED <<arg, pipeline, shared>>

\* _search_inmemory(query_vector, limit, min_works): the function has no
\* parameter for identifiers to exclude, the caller's list goes nowhere
CallSearchInMemory ==
    /\ pc = "call"
    /\ ret' \in SearchInMemory(SmallCorpus, arg.query_vector, arg.limit, arg.min_works)
    /\ pc' = "returned_local"
    /\ UNCHANGED <<arg, pipeline, shared>>

NextRetrieve == CallSearchSimilar \/ CallSearchInMemory

SpecRetrieve == InitRetrieve /\ [][NextRetrieve]_vars

\* No returned candidate has an identifier of the caller's exclusion list
NoneExcluded == \A k \in DOMAIN ret : ret[k].author_id \notin Range(arg.exclude_author_ids)

\* C27: retrieval never returns a candidate whose author identifier is in
\* the exclusion set, whichever of the two backends answered.
C27_ExcludedNeverReturned ==
    pc \in {"returned_remote", "returned_local"} => NoneExcluded

\* C27 taken apart by backend
C27_RemoteExcludes == pc = "returned_remote" => NoneExcluded
C27_LocalExcludes == pc = "returned_local" => NoneExcluded

\* The remote backend answering with fewer candidates than the limit
\* because of the exclusion list
C27_RemoteReached ==
    /\ pc = "returned_remote"
    /\ arg.exclude_author_ids # <<>>
    /\ ret # <<>>
    /\ Len(ret) < arg.limit


\* ---------------------------------------------------------------------
\* The probe and the choice of the retrieval backend
\* ---------------------------------------------------------------------

\* The invocation has got to step 3's search
ReachedRetrieval == pc \in {"retrieved", "enrich", "coi", "done"}
                    \/ (pc = "raised" /\ "probe" \in CallNames)

\* C28: in every invocation that reaches retrieval the availability probe is
\* evaluated exactly once and exactly one backend is queried: the vector
\* index if and only if the probe succeeded, the in-memory index otherwise.
C28_OneProbeOneBackend ==
    /\ Attempts("probe") <= 1
    /\ ("qdrant_search" \in CallNames \/ "inmemory_search" \in CallNames)
          => Attempts("probe") = 1
    /\ ReachedRetrieval =>
          /\ Attempts("probe") = 1
          /\ "qdrant_search" \in CallNames <=> use_qdrant
          /\ "inmemory_search" \in CallNames <=> ~use_qdrant
          /\ Attempts("inmemory_search") <= 1

\* The vector index was probed, found up, and then failed both attempts of
\* the search: the in-memory index is not asked
C28_Witness ==
    /\ pc = "raised"
    /\ use_qdrant
    /\ Attempts("probe") = 1
    /\ Attempts("qdrant_search") = 2
    /\ "inmemory_search" \notin CallNames


\* ---------------------------------------------------------------------
\* Co-authorship in the pipeline
\* ---------------------------------------------------------------------

\* C29: no reviewer returned by find_reviewers carries a co_author flag,
\* whatever the candidates' co-author identifiers are: the pipeline calls
\* check_all_candidates without excluded author identifiers.
C29_NoCoAuthorFlagInPipeline ==
    /\ \A k \in DOMAIN reviewers : FlagsOfType(reviewers[k], {"co_author"}) = <<>>
    /\ \A k \in DOMAIN scored : FlagsOfType(scored[k], {"co_author"}) = <<>>

\* Returned reviewers with co-authors on record, one of them flagged for
\* another reason, one of them a co-author of another returned reviewer
C29_Witness ==
    /\ pc = "done"
    /\ \E k \in DOMAIN reviewers :
          /\ reviewers[k].co_author_ids # <<>>
          /\ reviewers[k].coi_flags # <<>>
    /\ \E j, k \in DOMAIN reviewers :
          reviewers[j].author_id \in Range(reviewers[k].co_author_ids)


\* ---------------------------------------------------------------------
\* The counts find_reviewers returns
\* ---------------------------------------------------------------------

\* The "metadata" dict of the two return statements of find_reviewers
Metadata ==
    IF NoCandidates(candidates)
    THEN [vector_candidates |-> 0, final_reviewers |-> 0]
    ELSE [vector_candidates |-> Len(candidates),
          reranked_candidates |-> Len(scored),
          final_reviewers |-> Len(reviewers)]

\* The claim's bounds on what was returned; the early return has no
\* reranked_candidates, 0 stands for it there
CountsBounded ==
    LET reranked == IF "reranked_candidates" \in DOMAIN Metadata
                    THEN Metadata.reranked_candidates ELSE 0
    IN  /\ Len(reviewers) <= Min2(Min2(num_reviewers, 30), Len(candidates))
        /\ Metadata.final_reviewers = Len(reviewers)
        /\ Metadata.final_reviewers <= reranked
        /\ reranked <= Metadata.vector_candidates

\* C30: the number of reviewers returned is at most min(num_reviewers, 30,
\* number of retrieved candidates), metadata.final_reviewers is the length
\* of the reviewers list, and final_reviewers <= reranked_candidates <=
\* vector_candidates.
C30_ReviewerCountBounded == Returned => CountsBounded

\* C30 taken apart by scoring path: the heuristic and the except branch,
\* the completion service
C30_HeuristicCountBounded ==
    (Returned /\ scoring_path # "live") => CountsBounded
C30_LiveCountBounded ==
    (Returned /\ scoring_path = "live") => CountsBounded

\* The cap at work without the completion service: more than 30 candidates
\* retrieved and more than 30 reviewers asked for, 30 returned
C30_CapReached ==
    /\ Returned
    /\ scoring_path # "live"
    /\ Len(candidates) > 30
    /\ num_reviewers > 30
    /\ Len(reviewers) = 30


(***************************************************************************)
(* _load_authors_db called by overlapping queries of one process, while    *)
(* the authors file is written anew.  No lock guards the two globals; a    *)
(* thread can be suspended between any two statements.                     *)
(***************************************************************************)
MaxVersion == 2

\* A thread outside _load_authors_db; ret and seen_mtime are what its last
\* call returned and the _authors_mtime of that moment (history)
IdleThread == [pc |-> "idle", mtime |-> 0, authors |-> 0, ret |-> Unset, seen_mtime |-> 0]

InitAuthorsDb ==
    /\ NoPipeline
    /\ pc = "threads"
    /\ arg = None
    /\ ret = None
    /\ authors_file \in { [exists |-> TRUE, mtime |-> 1, content |-> 1],
                          [exists |-> FALSE, mtime |-> 1, content |-> 1] }
    /\ authors_cache = Unset
    /\ authors_mtime = 0
    /\ index_files = TRUE
    /\ inmemory_embeddings = Unset
    /\ inmemory_metadata = Unset
    /\ loads = 0
    /\ threads = [t \in Threads |-> IdleThread]

\* What the steps of _load_authors_db leave alone
OutsideAuthorsDb == <<pipeline, pc, arg, ret, index_files, inmemory_embeddings,
                      inmemory_metadata, loads>>

\* mtime = os.path.getmtime(AUTHORS_FILE) if os.path.exists(AUTHORS_FILE) else 0
\* (0 also when the file goes between the two: OSError)
GetMtime(t) ==
    /\ threads[t].pc \in {"idle", "returned"}
    /\ threads' = [threads EXCEPT ![t].pc = "test",
                                  ![t].mtime = IF authors_file.exists
                                               THEN authors_file.mtime ELSE 0]
    /\ UNCHANGED <<OutsideAuthorsDb, authors_file, authors_cache, authors_mtime>>

\* if _authors_cache is None or mtime != _authors_mtime
TestCache(t) ==
    /\ threads[t].pc = "test"
    /\ threads' = [threads EXCEPT ![t].pc =
                      IF authors_cache = Unset \/ threads[t].mtime # authors_mtime
                      THEN "exists" ELSE "return"]
    /\ UNCHANGED <<OutsideAuthorsDb, authors_file, authors_cache, authors_mtime>>

\* if os.path.exists(AUTHORS_FILE)
TestExists(t) ==
    /\ threads[t].pc = "exists"
    /\ threads' = [threads EXCEPT ![t].pc = IF authors_file.exists THEN "open" ELSE "empty"]
    /\ UNCHANGED <<OutsideAuthorsDb, authors_file, authors_cache, authors_mtime>>

\* with open(AUTHORS_FILE) as f: authors = json.load(f).  (Nothing here
\* removes the file, and a read of a half-written file is left out: the
\* file read is a whole version.)
ReadAuthors(t) ==
    /\ threads[t].pc = "open"
    /\ threads' = [threads EXCEPT ![t].pc = "assign_cache",
                                  ![t].authors = authors_file.content]
    /\ UNCHANGED <<OutsideAuthorsDb, authors_file, authors_cache, authors_mtime>>

\* _authors_cache = {a["id"]: a for a in authors}: the dict is built, then
\* the global is bound to it
AssignCache(t) ==
    /\ threads[t].pc = "assign_cache"
    /\ authors_cache' = Built(threads[t].authors)
    /\ threads' = [threads EXCEPT ![t].pc = "assign_mtime"]
    /\ UNCHANGED <<OutsideAuthorsDb, authors_file, authors_mtime>>

\* _authors_mtime = mtime
AssignMtime(t) ==
    /\ threads[t].pc = "assign_mtime"
    /\ authors_mtime' = threads[t].mtime
    /\ threads' = [threads EXCEPT ![t].pc = "return"]
    /\ UNCHANGED <<OutsideAuthorsDb, authors_file, authors_cache>>

\* else: _authors_cache = {}
AssignEmpty(t) ==
    /\ threads[t].pc = "empty"
    /\ authors_cache' = Built(0)
    /\ threads' = [threads EXCEPT ![t].pc = "return"]
    /\ UNCHANGED <<OutsideAuthorsDb, authors_file, authors_mtime>>

\* return _authors_cache
ReturnCache(t) ==
    /\ threads[t].pc = "return"
    /\ threads' = [threads EXCEPT ![t] = [pc |-> "returned", mtime |-> 0, authors |-> 0,
                                          ret |-> authors_cache,
                                          seen_mtime |-> authors_mtime]]
    /\ UNCHANGED <<OutsideAuthorsDb, authors_file, authors_cache, authors_mtime>>

\* pipeline/seed_prototype.py writes a new authors file
RewriteFile ==
    /\ authors_file.mtime < MaxVersion
    /\ authors_file' = [exists |-> TRUE, mtime |-> authors_file.mtime + 1,
                        content |-> authors_file.content + 1]
    /\ UNCHANGED <<OutsideAuthorsDb, authors_cache, authors_mtime, threads>>

NextAuthorsDb ==
    \/ \E t \in Threads :
          \/ GetMtime(t)
          \/ TestCache(t)
          \/ TestExists(t)
          \/ ReadAuthors(t)
          \/ AssignCache(t)
          \/ AssignMtime(t)
          \/ AssignEmpty(t)
          \/ ReturnCache(t)
    \/ RewriteFile

SpecAuthorsDb == InitAuthorsDb /\ [][NextAuthorsDb]_vars

\* No thread is inside _load_authors_db
Quiescent == \A t \in Threads : threads[t].pc \in {"idle", "returned"}

\* The snapshot is the dict built from the file version with this timestamp
\* (the empty dict: from no file, timestamp 0)
BelongsTo(snapshot, timestamp) ==
    snapshot.kind = "object" /\ snapshot.version = timestamp

\* C21: every caller of _load_authors_db gets a complete snapshot, and once
\* the calls have returned the cached snapshot is the one its cached
\* timestamp belongs to, so that a later change of the file's timestamp is
\* what triggers the reload.
C21_SnapshotMatchesTimestamp ==
    /\ \A t \in Threads : threads[t].pc = "returned" => threads[t].ret.kind = "object"
    /\ (Quiescent /\ authors_cache # Unset) => BelongsTo(authors_cache, authors_mtime)

\* The parts of C21 taken apart: what a call returns is a whole dict built
\* from one version of the file; the cache does not differ from the file
\* while the timestamps agree
C21_CompleteSnapshot ==
    \A t \in Threads :
        threads[t].pc = "returned" =>
            /\ threads[t].ret.kind = "object"
            /\ threads[t].ret.version \in 0..MaxVersion
C21_NoStaleSnapshotPinned ==
    (Quiescent /\ authors_cache # Unset /\ authors_file.exists
        /\ authors_mtime = authors_file.mtime)
        => authors_cache.version = authors_file.content


(***************************************************************************)
(* _search_inmemory called by overlapping queries of one process.  No lock *)
(* guards the two globals of the index.                                    *)
(***************************************************************************)
\* The queries that overlap in the local backend
SearchThreads == {1, 2, 3}

InitIndex ==
    /\ NoPipeline
    /\ pc = "threads"
    /\ arg = None
    /\ ret = None
    /\ authors_file = [exists |-> TRUE, mtime |-> 1, content |-> 1]
    /\ authors_cache = Unset
    /\ authors_mtime = 0
    /\ index_files \in BOOLEAN
    /\ inmemory_embeddings = Unset
    /\ inmemory_metadata = Unset
    /\ loads = 0
    /\ threads = [t \in SearchThreads |-> [pc |-> "idle"]]

\* What the steps of _search_inmemory leave alone
OutsideIndex == <<pipeline, pc, arg, ret, authors_file, authors_cache, authors_mtime>>

\* _search_inmemory calls _load_inmemory_index:
\* if _inmemory_embeddings is not None: return
TestLoaded(t) ==
    /\ threads[t].pc \in {"idle", "returned", "file_not_found", "type_error"}
    /\ threads' = [threads EXCEPT ![t].pc = IF inmemory_embeddings # Unset
                                            THEN "product" ELSE "files"]
    /\ UNCHANGED <<OutsideIndex, index_files, inmemory_embeddings, inmemory_metadata, loads>>

\* if not os.path.exists(emb_path) or not os.path.exists(meta_path): raise
TestFiles(t) ==
    /\ threads[t].pc = "files"
    /\ threads' = [threads EXCEPT ![t].pc = IF index_files THEN "load_embeddings"
                                            ELSE "file_not_found"]
    /\ UNCHANGED <<OutsideIndex, index_files, inmemory_embeddings, inmemory_metadata, loads>>

\* _inmemory_embeddings = np.load(emb_path).astype(np.float32)
LoadEmbeddings(t) ==
    /\ threads[t].pc = "load_embeddings"
    /\ inmemory_embeddings' = Built(1)
    /\ loads' = loads + 1
    /\ threads' = [threads EXCEPT ![t].pc = "load_metadata"]
    /\ UNCHANGED <<OutsideIndex, index_files, inmemory_metadata>>

\* with open(meta_path) as f: _inmemory_metadata = json.load(f)
LoadMetadata(t) ==
    /\ threads[t].pc = "load_metadata"
    /\ inmemory_metadata' = Built(1)
    /\ threads' = [threads EXCEPT ![t].pc = "product"]
    /\ UNCHANGED <<OutsideIndex, index_files, inmemory_embeddings, loads>>

\* similarities = _inmemory_embeddings @ query
MatrixProduct(t) ==
    /\ threads[t].pc = "product"
    /\ threads' = [threads EXCEPT ![t].pc = "scan"]
    /\ UNCHANGED <<OutsideIndex, index_files, inmemory_embeddings, inmemory_metadata, loads>>

\* for idx in top_indices: meta = _inmemory_metadata[idx] ...: subscripting
\* None raises TypeError
ScanMetadata(t) ==
    /\ threads[t].pc = "scan"
    /\ threads' = [threads EXCEPT ![t].pc = IF inmemory_metadata = Unset
                                            THEN "type_error" ELSE "returned"]
    /\ UNCHANGED <<OutsideIndex, index_files, inmemory_embeddings, inmemory_metadata, loads>>

\* pipeline/build_embeddings.py writes the two index files
WriteIndexFiles ==
    /\ ~index_files
    /\ index_files' = TRUE
    /\ UNCHANGED <<OutsideIndex, inmemory_embeddings, inmemory_metadata, loads, threads>>

NextIndex ==
    \/ \E t \in SearchThreads :
          \/ TestLoaded(t)
          \/ TestFiles(t)
          \/ LoadEmbeddings(t)
          \/ LoadMetadata(t)
          \/ MatrixProduct(t)
          \/ ScanMetadata(t)
    \/ WriteIndexFiles

SpecIndex == InitIndex /\ [][NextIndex]_vars

\* C22: the in-memory index is loaded at most once per process, and no
\* query has read the matrix while the metadata is absent.
C22_LoadedOncePairTogether ==
    /\ loads <= 1
    /\ \A t \in SearchThreads : threads[t].pc = "scan" => inmemory_metadata # Unset

\* The parts of C22 taken apart, and what the second one leads to
C22_LoadedAtMostOnce == loads <= 1
C22_PairObservedTogether ==
    \A t \in SearchThreads : threads[t].pc = "scan" => inmemory_metadata # Unset
C22_NoQueryFailsOnLoadedIndex ==
    \A t \in SearchThreads : threads[t].pc # "type_error"

=============================================================================
